---- MODULE Spec2Model ----
(***************************************************************************)
(* A model of athena-udf: the typed column <-> scalar conversion layer     *)
(* (arrow_conversions.rs), the row-wise execution engine (process_macro.rs)*)
(* and the request/response protocol (lib.rs, request.rs, response.rs).    *)
(*                                                                         *)
(* Rust's Option<T> is modelled as a sequence of length 0 or 1:            *)
(*   None == <<>>,  Some(x) == <<x>>.                                      *)
(* Scalar values of every ScalarType are abstract natural-number tokens;   *)
(* token 0 stands for the type's default value ("" / 0 / false / empty),   *)
(* which is what an Arrow value buffer holds in a null slot.               *)
(***************************************************************************)
EXTENDS Integers, Sequences, FiniteSets, TLC

VARIABLES
    a_in,    \* adapter check: the Vec<Option<..>> handed to to_array
    a_arr,   \* adapter check: the array to_array built
    a_read,  \* adapter check: from_array at every index of a_arr
    a_pc,    \* adapter check: "idle", "written", "read"
    p_in,    \* process_N: the call's inputs (batch, type parameters, field name)
    p_res,   \* process_N: what the call returned, and the user_fn invocations
    r_pc,        \* handle_athena_request: where the invocation stands
    r_event,     \* event.payload, the inbound JSON value
    r_payload,   \* actual_payload
    r_is_http,   \* is_http
    r_handler,   \* udf_handler: the closure the Lambda was built with
    r_request,   \* the decoded AthenaUDFRequest
    r_work,      \* process_with: input batches, output schema, output batches so far
    r_response,  \* the AthenaResponse built
    r_result,    \* what the invocation returned: Ok(Value) or Err(error)
    r_log,       \* which paths ran: PingRequest::handle, the UDF handler
    c_in,        \* codec check: the operation applied and its argument
    c_out,       \* codec check: what the operation returned
    h_done       \* the invocations this process has completed: event and result

engine_vars == <<a_in, a_arr, a_read, a_pc, p_in, p_res>>
request_vars == <<r_pc, r_event, r_handler, r_payload, r_is_http, r_request, r_work, r_response,
                  r_result, r_log>>
codec_vars == <<c_in, c_out>>
vars == <<a_in, a_arr, a_read, a_pc, p_in, p_res,
          r_pc, r_event, r_handler, r_payload, r_is_http, r_request, r_work, r_response,
          r_result, r_log, c_in, c_out, h_done>>

(* ------------------------------ bounds ------------------------------- *)

MaxLen == 3      \* longest Vec handed to to_array in the adapter checks
MaxRows == 2     \* most rows of a batch handed to process_N
MaxArity == 2    \* largest N of process_N explored (the crate stops at 6)
MaxBatches == 2  \* most record batches in the input stream of an Invoke
MaxMetadataLen == 24  \* longest metadata block handed to write_ipc_message alone
MaxBytes == 3    \* longest byte buffer taken through the base64 codec alone
MaxInvocations == 3  \* most invocations one Lambda process handles in a behaviour

(* ------------------------------ Option ------------------------------- *)

\* What the value buffer of an array holds in a null slot.
DefaultValue == 0

None == <<>>
Some(x) == <<x>>
IsSome(o) == Len(o) = 1
IsNone(o) == Len(o) = 0
Unwrap(o) == o[1]

\* Mutant: Some(None) is unwrapped to a present default value.
Flatten_Default(o) ==
    IF IsNone(o) THEN None
    ELSE IF IsNone(Unwrap(o)) THEN Some(DefaultValue) ELSE Unwrap(o)

\* Option<Option<T>>::flatten
Flatten(o) == IF IsNone(o) THEN None ELSE Unwrap(o)

(* --------------------- arrays (arrow, as used) ----------------------- *)

DataTypes == {"Utf8", "Int64", "Int32", "Float64", "Boolean", "Binary"}

\* An Arrow array: a data type, a value buffer with one slot per element and
\* a validity bitmap; a null slot holds the default value.
IsNull(array, index) == ~array.validity[index]
Value(array, index) == array.values[index]
ArrayLen(array) == Len(array.values)

\* Mutant: the array is built without a validity bitmap (every slot valid).
ArrayFromOptions_NoNulls(dt, values) ==
    [data_type |-> dt,
     values    |-> [i \in 1..Len(values) |->
                       IF IsSome(values[i]) THEN Unwrap(values[i]) ELSE DefaultValue],
     validity  |-> [i \in 1..Len(values) |-> TRUE]]

\* StringArray::from(Vec<Option<String>>), Int64Array::from(..), ...
ArrayFromOptions(dt, values) ==
    [data_type |-> dt,
     values    |-> [i \in 1..Len(values) |->
                       IF IsSome(values[i]) THEN Unwrap(values[i]) ELSE DefaultValue],
     validity  |-> [i \in 1..Len(values) |-> IsSome(values[i])]]

(* ----------------------- FromArrow / ToArrow ------------------------- *)

\* A type parameter of process_N: a ScalarType T, or Option<T>.
TypeParam(ty, opt) == [ty |-> ty, opt |-> opt]

\* FromArrow::ArrayType / ToArrow::ArrayType: Option<T> uses T's array type.
ArrayTypeOf(tp) == tp.ty

\* ToArrow::data_type
DataTypeOf(tp) == tp.ty

\* Mutant: from_array reads the value buffer without asking is_null.
FromArrayPlain_IgnoreNull(array, index) == Some(Value(array, index))

\* impl FromArrow for String / i64 / i32 / f64 / bool / Vec<u8>
FromArrayPlain(array, index) ==
    IF IsNull(array, index) THEN None ELSE Some(Value(array, index))

\* Mutant: Option<T>::from_array lets a null element through as None.
FromArrayOption_Propagate(array, index) ==
    IF IsNull(array, index) THEN None ELSE Some(Some(Value(array, index)))

\* impl FromArrow for Option<T>
FromArrayOption(array, index) == Some(FromArrayPlain(array, index))

FromArray(tp, array, index) ==
    IF tp.opt THEN FromArrayOption(array, index) ELSE FromArrayPlain(array, index)

\* impl ToArrow for String / i64 / i32 / f64 / bool / Vec<u8>
ToArrayPlain(ty, values) == ArrayFromOptions(ty, values)

\* impl ToArrow for Option<T>
ToArrayOption(ty, values) ==
    LET flattened == [i \in 1..Len(values) |-> Flatten(values[i])]
    IN  ToArrayPlain(ty, flattened)

ToArray(tp, values) ==
    IF tp.opt THEN ToArrayOption(tp.ty, values) ELSE ToArrayPlain(tp.ty, values)

(* ------------------------- record batches ---------------------------- *)

Field(name, data_type, nullable) ==
    [name |-> name, data_type |-> data_type, nullable |-> nullable]

NumColumns(batch) == Len(batch.columns)

\* RecordBatch::try_new as process_N uses it: the columns must agree with the
\* schema in number and data type, have one length, and a non-nullable field
\* must hold no null.
TryNew(schema, columns) ==
    IF /\ Len(schema) = Len(columns)
       /\ Len(columns) > 0
       /\ \A k \in 1..Len(columns) :
             /\ columns[k].data_type = schema[k].data_type
             /\ ArrayLen(columns[k]) = ArrayLen(columns[1])
             /\ schema[k].nullable \/ \A i \in 1..ArrayLen(columns[k]) : ~IsNull(columns[k], i)
    THEN [kind |-> "ok",
          batch |-> [schema |-> schema, columns |-> columns,
                     num_rows |-> ArrayLen(columns[1])]]
    ELSE [kind |-> "err", error |-> "ArrowError"]

(* --------------------- process_N (impl_process!) --------------------- *)

\* The caller's function, as a counting stub: it returns a code of its
\* arguments in argument order (a None argument counts 0, cell values are
\* 1..3), and a stub with an Option output returns None on an odd code.
ArgCode(tp, a) == IF tp.opt THEN (IF IsNone(a) THEN 0 ELSE Unwrap(a)) ELSE a

RECURSIVE ArgsCode(_, _, _)
ArgsCode(sig, args, k) ==
    IF k = 0 THEN 0 ELSE ArgsCode(sig, args, k - 1) * 4 + ArgCode(sig[k], args[k])

user_fn(sig, out, args) ==
    LET code == ArgsCode(sig, args, Len(sig))
    IN  IF out.opt THEN (IF code % 2 = 1 THEN None ELSE Some(code)) ELSE code

\* Mutant: the last declared position is bound without its type check.
RECURSIVE BindColumns_SkipLast(_, _, _)
BindColumns_SkipLast(batch, sig, k) ==
    IF k > Len(sig) THEN [kind |-> "ok"]
    ELSE IF k > NumColumns(batch) THEN [kind |-> "panic", col_idx |-> k - 1]
    ELSE IF k < Len(sig) /\ batch.columns[k].data_type # ArrayTypeOf(sig[k])
         THEN [kind |-> "err", error |-> "ColumnTypeMismatch", col_idx |-> k - 1]
    ELSE BindColumns_SkipLast(batch, sig, k + 1)

\* Mutant: the columns past the declared positions are checked too, against
\* the type of the last position.
RECURSIVE BindColumns_EveryColumn(_, _, _)
BindColumns_EveryColumn(batch, sig, k) ==
    IF k > Len(sig) /\ k > NumColumns(batch) THEN [kind |-> "ok"]
    ELSE IF k > NumColumns(batch) THEN [kind |-> "panic", col_idx |-> k - 1]
    ELSE IF batch.columns[k].data_type
              # ArrayTypeOf(sig[IF k > Len(sig) THEN Len(sig) ELSE k])
         THEN [kind |-> "err", error |-> "ColumnTypeMismatch", col_idx |-> k - 1]
    ELSE BindColumns_EveryColumn(batch, sig, k + 1)

\* Mutant: every position is checked and the last mismatch is reported.
RECURSIVE BindColumns_LastMismatch(_, _, _)
BindColumns_LastMismatch(batch, sig, k) ==
    IF k > Len(sig) THEN [kind |-> "ok"]
    ELSE IF k > NumColumns(batch) THEN [kind |-> "panic", col_idx |-> k - 1]
    ELSE LET rest == BindColumns_LastMismatch(batch, sig, k + 1)
         IN  IF rest.kind = "err" THEN rest
             ELSE IF batch.columns[k].data_type # ArrayTypeOf(sig[k])
             THEN [kind |-> "err", error |-> "ColumnTypeMismatch", col_idx |-> k - 1]
             ELSE rest

\* The column binding: position k (col_idx = k - 1) is bound to column k of the
\* batch, in order; batch.column(col_idx) panics past the last column, and a
\* failed downcast returns the error of that position.
RECURSIVE BindColumns(_, _, _)
BindColumns(batch, sig, k) ==
    IF k > Len(sig) THEN [kind |-> "ok"]
    ELSE IF k > NumColumns(batch) THEN [kind |-> "panic", col_idx |-> k - 1]
    ELSE IF batch.columns[k].data_type # ArrayTypeOf(sig[k])
         THEN [kind |-> "err", error |-> "ColumnTypeMismatch", col_idx |-> k - 1]
    ELSE BindColumns(batch, sig, k + 1)

\* One row of the loop: every input is read, and user_fn runs only when every
\* read is Some.
RowReads(batch, sig, row_idx) ==
    [k \in 1..Len(sig) |-> FromArray(sig[k], batch.columns[k], row_idx)]

AllSome(reads) == \A k \in 1..Len(reads) : IsSome(reads[k])

RowArgs(reads) == [k \in 1..Len(reads) |-> Unwrap(reads[k])]

\* Mutant: each result is put in front of the earlier ones.
RECURSIVE RowLoop_Reversed(_, _, _, _, _, _)
RowLoop_Reversed(batch, sig, out, row_idx, results, calls) ==
    IF row_idx > batch.num_rows THEN [results |-> results, calls |-> calls]
    ELSE LET reads == [k \in 1..Len(sig) |-> FromArray(sig[k], batch.columns[k], row_idx)]
             all   == \A k \in 1..Len(reads) : IsSome(reads[k])
             args  == [k \in 1..Len(reads) |-> Unwrap(reads[k])]
         IN  IF all
             THEN RowLoop_Reversed(batch, sig, out, row_idx + 1,
                          <<Some(user_fn(sig, out, args))>> \o results,
                          Append(calls, [row_idx |-> row_idx, args |-> args]))
             ELSE RowLoop_Reversed(batch, sig, out, row_idx + 1, <<None>> \o results, calls)

\* Mutant: the rows are visited from the last to the first.
RECURSIVE RowLoop_LastRowFirst(_, _, _, _, _, _)
RowLoop_LastRowFirst(batch, sig, out, row_idx, results, calls) ==
    IF row_idx > batch.num_rows THEN [results |-> results, calls |-> calls]
    ELSE LET reads == [k \in 1..Len(sig) |-> FromArray(sig[k], batch.columns[k], row_idx)]
             all   == \A k \in 1..Len(reads) : IsSome(reads[k])
             args  == [k \in 1..Len(reads) |-> Unwrap(reads[k])]
         IN  IF all
             THEN RowLoop_LastRowFirst(batch, sig, out, row_idx + 1,
                          Append(results, Some(user_fn(sig, out, args))),
                          <<[row_idx |-> row_idx, args |-> args]>> \o calls)
             ELSE RowLoop_LastRowFirst(batch, sig, out, row_idx + 1,
                                       Append(results, None), calls)

\* for row_idx in 0..num_rows (rows are numbered from 1 here): the results
\* pushed so far, and the invocations of user_fn in the order they happened.
RECURSIVE RowLoop(_, _, _, _, _, _)
RowLoop(batch, sig, out, row_idx, results, calls) ==
    IF row_idx > batch.num_rows THEN [results |-> results, calls |-> calls]
    ELSE LET reads == RowReads(batch, sig, row_idx)
         IN  IF AllSome(reads)
             THEN RowLoop(batch, sig, out, row_idx + 1,
                          Append(results, Some(user_fn(sig, out, RowArgs(reads)))),
                          Append(calls, [row_idx |-> row_idx, args |-> RowArgs(reads)]))
             ELSE RowLoop(batch, sig, out, row_idx + 1, Append(results, None), calls)

\* The output batch: one nullable field named output_field_name.
OutputBatch(out, output_field_name, results) ==
    TryNew(<<Field(output_field_name, DataTypeOf(out), TRUE)>>, <<ToArray(out, results)>>)

\* process_unary .. process_senary: N = Len(sig).
ProcessN(batch, sig, out, output_field_name) ==
    LET bound == BindColumns(batch, sig, 1)
    IN  IF bound.kind # "ok" THEN bound @@ [calls |-> <<>>]
        ELSE LET loop == RowLoop(batch, sig, out, 1, <<>>, <<>>)
             IN  OutputBatch(out, output_field_name, loop.results)
                   @@ [calls |-> loop.calls]

(* ------------------- inputs of the adapter checks -------------------- *)

\* Two values per type: the default value and another one.
AdapterValues == {0, 1}

RECURSIVE SeqsUpTo(_, _)
SeqsUpTo(S, n) ==
    IF n = 0 THEN {<<>>}
    ELSE LET shorter == SeqsUpTo(S, n - 1)
         IN  shorter \cup {Append(q, x) : q \in {r \in shorter : Len(r) = n - 1}, x \in S}

\* Option<T> and Option<Option<T>>
OptionValues == {None} \cup {Some(v) : v \in AdapterValues}
OptionOptionValues == {None} \cup {Some(o) : o \in OptionValues}

NoArray == [data_type |-> "none", values |-> <<>>, validity |-> <<>>]
NoAdapterInput == [tp |-> TypeParam("none", FALSE), values |-> <<>>]

AdapterIdle ==
    /\ a_in = NoAdapterInput
    /\ a_arr = NoArray
    /\ a_read = <<>>
    /\ a_pc = "idle"

\* T::to_array(values) for a plain T
WritePlain ==
    /\ a_pc = "idle"
    /\ p_res.kind = "none"
    /\ \E ty \in DataTypes, values \in SeqsUpTo(OptionValues, MaxLen) :
         /\ a_in' = [tp |-> TypeParam(ty, FALSE), values |-> values]
         /\ a_arr' = ToArray(TypeParam(ty, FALSE), values)
    /\ a_pc' = "written"
    /\ UNCHANGED <<a_read, p_in, p_res, request_vars, codec_vars, h_done>>

\* Option::<T>::to_array(values)
WriteOption ==
    /\ a_pc = "idle"
    /\ p_res.kind = "none"
    /\ \E ty \in DataTypes, values \in SeqsUpTo(OptionOptionValues, MaxLen) :
         /\ a_in' = [tp |-> TypeParam(ty, TRUE), values |-> values]
         /\ a_arr' = ToArray(TypeParam(ty, TRUE), values)
    /\ a_pc' = "written"
    /\ UNCHANGED <<a_read, p_in, p_res, request_vars, codec_vars, h_done>>

\* from_array at every index of the array just written
ReadBack ==
    /\ a_pc = "written"
    /\ a_read' = [i \in 1..ArrayLen(a_arr) |-> FromArray(a_in.tp, a_arr, i)]
    /\ a_pc' = "read"
    /\ UNCHANGED <<a_in, a_arr, p_in, p_res, request_vars, codec_vars, h_done>>

(* ---------------------- inputs of process_N -------------------------- *)

ProcTypes == {"Utf8", "Int64"}

\* The value of a non-null cell: different in every row of a column.
CellValue(k, i) == 1 + ((k + i) % 3)

ColumnNames == <<"a", "b", "c", "d", "e", "f", "g">>

\* A column of n rows with the given data type and validity bitmap.
InputColumn(k, dt, validity) ==
    [data_type |-> dt,
     values    |-> [i \in 1..Len(validity) |->
                       IF validity[i] THEN CellValue(k, i) ELSE DefaultValue],
     validity  |-> validity]

Bitmaps(n) == [1..n -> BOOLEAN]

\* The column past the declared inputs, when the batch has one.
ExtraColumn(k, n) == InputColumn(k, "Boolean", [i \in 1..n |-> i % 2 = 0])

\* The batches of n rows whose first c columns are drawn freely, with an extra
\* column after them when extra is TRUE.
InputBatches(c, n, extra) ==
    { LET cols == [k \in 1..c |-> InputColumn(k, dts[k], bms[k])]
          all  == IF extra THEN Append(cols, ExtraColumn(c + 1, n)) ELSE cols
      IN  [schema   |-> [k \in 1..Len(all) |-> Field(ColumnNames[k], all[k].data_type, TRUE)],
           columns  |-> all,
           num_rows |-> n]
      : dts \in [1..c -> ProcTypes], bms \in [1..c -> Bitmaps(n)] }

\* The declared input types: all i64, or String and i64 in turn; every
\* position is plain or Option.
DeclaredTypes(N) ==
    { [k \in 1..N |-> "Int64"],
      [k \in 1..N |-> IF k % 2 = 1 THEN "Utf8" ELSE "Int64"] }

Signatures(N) ==
    { [k \in 1..N |-> TypeParam(tys[k], opts[k])]
      : tys \in DeclaredTypes(N), opts \in [1..N -> BOOLEAN] }

\* The output type parameter and the output field name of a call.
Outputs ==
    { [out |-> TypeParam(c[1], opt), output_field_name |-> c[2]]
      : c \in {<<"Utf8", "output">>, <<"Int64", "sum">>}, opt \in BOOLEAN }

NoBatch == [schema |-> <<>>, columns |-> <<>>, num_rows |-> 0]
NoCall == [batch |-> NoBatch, sig |-> <<>>, out |-> TypeParam("none", FALSE),
           output_field_name |-> ""]
NoResult == [kind |-> "none", calls |-> <<>>]

ProcIdle ==
    /\ p_in = NoCall
    /\ p_res = NoResult

\* UDFProcessor::new(&batch).process_N::<I1, .., O, _>(output_field_name, user_fn)
ProcessCall ==
    /\ p_res.kind = "none"
    /\ a_pc = "idle"
    /\ \E N \in 1..MaxArity, n \in 0..MaxRows, o \in Outputs :
       \E sig \in Signatures(N), c \in {N - 1, N}, extra \in BOOLEAN :
       \E batch \in InputBatches(c, n, extra) :
         /\ (c = 0 /\ ~extra) => n = 0
         /\ extra => c = N
         /\ p_in' = [batch |-> batch, sig |-> sig, out |-> o.out,
                     output_field_name |-> o.output_field_name]
         /\ p_res' = ProcessN(batch, sig, o.out, o.output_field_name)
    /\ UNCHANGED <<a_in, a_arr, a_read, a_pc, request_vars, codec_vars, h_done>>

(* ------------------------- serde_json values ------------------------- *)

\* Result<T, Error>, and a panic of the invocation.
Ok(v) == [ok |-> TRUE, v |-> v]
Err(e) == [ok |-> FALSE, error |-> e]
Panic(m) == [ok |-> FALSE, panic |-> m]
IsErr(r, e) == ~r.ok /\ "error" \in DOMAIN r /\ r.error = e
IsPanic(r) == ~r.ok /\ "panic" \in DOMAIN r

\* The content of a string: ordinary characters, or the text of a JSON
\* document (its members in the order they are written).
Text(chars) == [kind |-> "text", chars |-> chars]
JsonText(doc) == [kind |-> "json", doc |-> doc]

\* serde_json::Value
JNull == [j |-> "null"]
JBool(b) == [j |-> "bool", b |-> b]
JNumber(n) == [j |-> "num", n |-> n]
JString(s) == [j |-> "str", s |-> s]
JArray(a) == [j |-> "arr", a |-> a]
JObject(o) == [j |-> "obj", o |-> o]

\* JSON text, as written: an object is the sequence of its members.
DNull == [d |-> "null"]
DBool(b) == [d |-> "bool", b |-> b]
DNumber(n) == [d |-> "num", n |-> n]
DString(s) == [d |-> "str", s |-> s]
DArray(items) == [d |-> "arr", items |-> items]
DObject(members) == [d |-> "obj", members |-> members]
DBad == [d |-> "bad"]
Member(key, doc) == [key |-> key, doc |-> doc]

\* Value::get(key): None on a missing key and on anything but an object.
Get(value, key) ==
    IF value.j = "obj" /\ key \in DOMAIN value.o THEN Some(value.o[key]) ELSE None

\* Value::as_str
AsStr(value) == IF value.j = "str" THEN Some(value.s) ELSE None

\* value.get(key).and_then(|v| v.as_str())
GetStr(value, key) ==
    LET v == Get(value, key) IN IF IsNone(v) THEN None ELSE AsStr(Unwrap(v))

\* The member of a written object that decides key k: the last one.
LastMember(members, k) ==
    CHOOSE i \in 1..Len(members) :
        /\ members[i].key = k
        /\ \A j \in (i + 1)..Len(members) : members[j].key # k

\* serde_json::from_str on a document: a syntax error anywhere fails it.
RECURSIVE ParseDoc(_)
ParseDoc(doc) ==
    CASE doc.d = "null" -> Ok(JNull)
      [] doc.d = "bool" -> Ok(JBool(doc.b))
      [] doc.d = "num"  -> Ok(JNumber(doc.n))
      [] doc.d = "str"  -> Ok(JString(doc.s))
      [] doc.d = "arr"  ->
            LET items == [i \in 1..Len(doc.items) |-> ParseDoc(doc.items[i])]
            IN  IF \A i \in 1..Len(items) : items[i].ok
                THEN Ok(JArray([i \in 1..Len(items) |-> items[i].v]))
                ELSE Err("Json")
      [] doc.d = "obj"  ->
            LET parsed == [i \in 1..Len(doc.members) |-> ParseDoc(doc.members[i].doc)]
                keys   == {doc.members[i].key : i \in 1..Len(doc.members)}
            IN  IF \A i \in 1..Len(parsed) : parsed[i].ok
                THEN Ok(JObject([k \in keys |-> parsed[LastMember(doc.members, k)].v]))
                ELSE Err("Json")
      [] OTHER -> Err("Json")

\* serde_json::from_str(&str)
FromStr(s) == IF s.kind = "json" THEN ParseDoc(s.doc) ELSE Err("Json")

\* serde_json::to_value on what a Serialize impl writes: a map keeps one
\* entry per key.
RECURSIVE SerializedValue(_)
SerializedValue(doc) ==
    CASE doc.d = "null" -> JNull
      [] doc.d = "bool" -> JBool(doc.b)
      [] doc.d = "num"  -> JNumber(doc.n)
      [] doc.d = "str"  -> JString(doc.s)
      [] doc.d = "arr"  -> JArray([i \in 1..Len(doc.items) |-> SerializedValue(doc.items[i])])
      [] doc.d = "obj"  ->
            JObject([k \in {doc.members[i].key : i \in 1..Len(doc.members)} |->
                        SerializedValue(doc.members[LastMember(doc.members, k)].doc)])

\* serde_json::to_string on what a Serialize impl writes
SerializedText(doc) == JsonText(doc)

\* The caller's rendering of a value as JSON text (keys in some fixed order).
RECURSIVE SetToSeq(_)
SetToSeq(S) ==
    IF S = {} THEN <<>>
    ELSE LET x == CHOOSE y \in S : TRUE IN <<x>> \o SetToSeq(S \ {x})

RECURSIVE ValueToDoc(_)
ValueToDoc(value) ==
    CASE value.j = "null" -> DNull
      [] value.j = "bool" -> DBool(value.b)
      [] value.j = "num"  -> DNumber(value.n)
      [] value.j = "str"  -> DString(value.s)
      [] value.j = "arr"  -> DArray([i \in 1..Len(value.a) |-> ValueToDoc(value.a[i])])
      [] value.j = "obj"  ->
            LET keys == SetToSeq(DOMAIN value.o)
            IN  DObject([i \in 1..Len(keys) |-> Member(keys[i], ValueToDoc(value.o[keys[i]]))])

(* ------------------------- typed requests ---------------------------- *)

\* String::deserialize
DeString(v) == IF v.j = "str" THEN Ok(v.s) ELSE Err("Deserialize")

\* Option<String>: a missing field and null are None.
DeOptionString(field) ==
    IF IsNone(field) \/ Unwrap(field).j = "null" THEN Ok(None)
    ELSE IF Unwrap(field).j = "str" THEN Ok(Some(Unwrap(field).s))
    ELSE Err("Deserialize")

\* A derived struct of n fields is read from an object, or from an array of
\* at most n elements taken in declaration order.
StructShape(v, n) == v.j = "obj" \/ (v.j = "arr" /\ Len(v.a) <= n)

\* The value given to the field named key, declared at position pos.
FieldOf(v, key, pos) ==
    IF v.j = "obj" THEN Get(v, key)
    ELSE IF v.j = "arr" /\ pos <= Len(v.a) THEN Some(v.a[pos])
    ELSE None

\* Mutant: a missing field reads as an empty object.
Required_OrEmpty(value, key) ==
    IF IsNone(Get(value, key)) THEN Some(JObject(<<>>)) ELSE Get(value, key)

\* A required field of the payload object.
Required(value, key) == Get(value, key)

IdentityKeys == <<"id", "principal", "account", "arn">>

\* Identity: every field optional (#[serde(default)]).
DeIdentity(v) ==
    IF ~StructShape(v, Len(IdentityKeys)) THEN Err("Deserialize")
    ELSE LET fields == [i \in 1..Len(IdentityKeys) |->
                           DeOptionString(FieldOf(v, IdentityKeys[i], i))]
         IN  IF \A i \in 1..Len(IdentityKeys) : fields[i].ok
             THEN Ok([id |-> fields[1].v, principal |-> fields[2].v,
                      account |-> fields[3].v, arn |-> fields[4].v])
             ELSE Err("Deserialize")

\* serde_json::from_value::<PingRequest>
DePingRequest(payload) ==
    IF payload.j # "obj" THEN Err("Deserialize")
    ELSE LET ty == Required(payload, "@type")
             id == Required(payload, "identity")
             cn == DeOptionString(Get(payload, "catalogName"))
             qi == DeOptionString(Get(payload, "queryId"))
         IN  IF \/ IsNone(ty) \/ ~DeString(Unwrap(ty)).ok
                \/ IsNone(id) \/ ~DeIdentity(Unwrap(id)).ok
                \/ ~cn.ok \/ ~qi.ok
             THEN Err("Deserialize")
             ELSE Ok([request_type |-> DeString(Unwrap(ty)).v,
                      identity     |-> DeIdentity(Unwrap(id)).v,
                      catalog_name |-> cn.v,
                      query_id     |-> qi.v])

(* ------------------------- bytes and base64 -------------------------- *)

RECURSIVE Concat(_)
Concat(seqs) == IF Len(seqs) = 0 THEN <<>> ELSE Head(seqs) \o Concat(Tail(seqs))

Zeros(n) == [i \in 1..n |-> 0]

\* A string of base64 characters, each given by its index in the standard
\* alphabet; index 64 is the padding character '='.  The empty string is
\* Text("").
Base64Text(chars) == IF Len(chars) = 0 THEN Text("") ELSE [kind |-> "b64", sextets |-> chars]

\* general_purpose::STANDARD.encode
RECURSIVE Base64Chars(_)
Base64Chars(bytes) ==
    IF Len(bytes) = 0 THEN <<>>
    ELSE IF Len(bytes) = 1
    THEN <<bytes[1] \div 4, (bytes[1] % 4) * 16, 64, 64>>
    ELSE IF Len(bytes) = 2
    THEN <<bytes[1] \div 4, (bytes[1] % 4) * 16 + bytes[2] \div 16, (bytes[2] % 16) * 4, 64>>
    ELSE <<bytes[1] \div 4, (bytes[1] % 4) * 16 + bytes[2] \div 16,
           (bytes[2] % 16) * 4 + bytes[3] \div 64, bytes[3] % 64>>
         \o Base64Chars(SubSeq(bytes, 4, Len(bytes)))

Base64Encode(bytes) == Base64Text(Base64Chars(bytes))

\* general_purpose::STANDARD.decode on the characters: whole quads, padding
\* only at the end of the last quad, no stray bits under the padding.
RECURSIVE Base64Bytes(_)
Base64Bytes(chars) ==
    IF Len(chars) = 0 THEN Ok(<<>>)
    ELSE IF Len(chars) < 4 THEN Err("Base64")
    ELSE LET c == SubSeq(chars, 1, 4)
             last == Len(chars) = 4
         IN  IF c[1] = 64 \/ c[2] = 64 THEN Err("Base64")
             ELSE IF c[3] = 64
             THEN IF last /\ c[4] = 64 /\ c[2] % 16 = 0
                  THEN Ok(<<c[1] * 4 + c[2] \div 16>>)
                  ELSE Err("Base64")
             ELSE IF c[4] = 64
             THEN IF last /\ c[3] % 4 = 0
                  THEN Ok(<<c[1] * 4 + c[2] \div 16, (c[2] % 16) * 16 + c[3] \div 4>>)
                  ELSE Err("Base64")
             ELSE LET rest == Base64Bytes(SubSeq(chars, 5, Len(chars)))
                  IN  IF rest.ok
                      THEN Ok(<<c[1] * 4 + c[2] \div 16, (c[2] % 16) * 16 + c[3] \div 4,
                                (c[3] % 4) * 64 + c[4]>> \o rest.v)
                      ELSE Err("Base64")

\* serde_base64::serialize
Base64Serialize(bytes) == DString(Base64Encode(bytes))

\* Mutant: a string that is not base64 reads as the empty buffer.
Base64Deserialize_Lenient(v) ==
    IF v.j # "str" THEN Err("Deserialize")
    ELSE IF v.s.kind = "b64" /\ Base64Bytes(v.s.sextets).ok THEN Base64Bytes(v.s.sextets)
    ELSE Ok(<<>>)

\* serde_base64::deserialize: a string, then its base64 decoding.
Base64Deserialize(v) ==
    IF v.j # "str" THEN Err("Deserialize")
    ELSE IF v.s.kind = "b64" THEN Base64Bytes(v.s.sextets)
    ELSE IF v.s = Text("") THEN Ok(<<>>)
    ELSE Err("Base64")

(* -------------------- Arrow IPC streams (framing) -------------------- *)

\* i32::to_le_bytes of a length
LeBytes(n) ==
    <<n % 256, (n \div 256) % 256, (n \div 65536) % 256, (n \div 16777216) % 256>>

FromLeBytes(b) == b[1] + 256 * b[2] + 65536 * b[3] + 16777216 * b[4]

ContinuationMarker == <<255, 255, 255, 255>>

\* Mutant: the outer modulo is left out.
Padding_NoOuterMod(len) == 8 - (len % 8)

\* The zero bytes after a metadata block of the given length.
Padding(len) == (8 - (len % 8)) % 8

\* Mutant: the body follows the metadata block without padding.
WriteIpcMessage_NoPadding(buffer, encoded) ==
    buffer
      \o ContinuationMarker
      \o LeBytes(Len(encoded.ipc_message))
      \o encoded.ipc_message
      \o encoded.arrow_data

\* write_ipc_message: what it appends to the buffer.
WriteIpcMessage(buffer, encoded) ==
    buffer
      \o ContinuationMarker
      \o LeBytes(Len(encoded.ipc_message))
      \o encoded.ipc_message
      \o Zeros(Padding(Len(encoded.ipc_message)))
      \o encoded.arrow_data

\* The field names and data types a metadata block can name, by code.
FieldNames == <<"a", "b", "c", "d", "e", "f", "g", "output", "sum">>
DataTypeCodes == <<"Utf8", "Int64", "Int32", "Float64", "Boolean", "Binary">>

CodeOf(names, name) == CHOOSE i \in 1..Len(names) : names[i] = name

MessageSchema == 1
MessageRecordBatch == 3

\* The bytes, followed by zero bytes up to a multiple of n.
AlignTo(bytes, n) == bytes \o Zeros((n - (Len(bytes) % n)) % n)

\* IpcDataGenerator::schema_to_bytes_with_dictionary_tracker: the metadata of
\* a schema message (message kind, field count, then name, type and
\* nullability of every field); a schema message has no body.  The encoder
\* finishes a metadata block at its own alignment: 4 bytes for a schema,
\* which holds no 8-byte value, so that the length of the block is a multiple
\* of 8 for some schemas and not for others.
SchemaToBytes(schema) ==
    [ipc_message |->
        AlignTo(<<MessageSchema, Len(schema)>>
                  \o Concat([k \in 1..Len(schema) |->
                               <<CodeOf(FieldNames, schema[k].name),
                                 CodeOf(DataTypeCodes, schema[k].data_type),
                                 IF schema[k].nullable THEN 1 ELSE 0>>]), 4),
     arrow_data |-> <<>>]

\* The body of a batch message: per column the validity bytes, then the value
\* bytes, the whole padded to a multiple of 8.
BatchBody(batch) ==
    LET raw == Concat([k \in 1..Len(batch.columns) |->
                         [i \in 1..batch.num_rows |->
                             IF batch.columns[k].validity[i] THEN 1 ELSE 0]
                         \o batch.columns[k].values])
    IN  AlignTo(raw, 8)

\* IpcDataGenerator::encode: no dictionaries (no ScalarType is dictionary
\* encoded), and the batch message: kind, row count, column count, body
\* length.  The metadata of a batch holds 8-byte values (its lengths), so the
\* encoder finishes it at a multiple of 8.
EncodeBatch(batch) ==
    [dictionaries |-> <<>>,
     batch |-> [ipc_message |-> AlignTo(<<MessageRecordBatch, batch.num_rows,
                                          Len(batch.columns), Len(BatchBody(batch))>>, 8),
                arrow_data  |-> BatchBody(batch)]]

\* serialize_schema
SerializeSchema(schema) == Ok(WriteIpcMessage(<<>>, SchemaToBytes(schema)))

\* serialize_batches: the loop over the batches, each with its dictionaries
\* first.
RECURSIVE SerializeBatchesFrom(_, _, _)
SerializeBatchesFrom(batches, k, buffer) ==
    IF k > Len(batches) THEN buffer
    ELSE LET encoded == EncodeBatch(batches[k])
             with_dicts == Concat([d \in 1..Len(encoded.dictionaries) |->
                                     WriteIpcMessage(<<>>, encoded.dictionaries[d])])
         IN  SerializeBatchesFrom(batches, k + 1,
                                  WriteIpcMessage(buffer \o with_dicts, encoded.batch))

\* Mutant: only the first batch is written.
SerializeBatches_FirstOnly(batches) ==
    IF Len(batches) # 0 THEN Ok(SerializeBatchesFrom(<<batches[1]>>, 1, <<>>)) ELSE Ok(<<>>)

SerializeBatches(batches) ==
    IF Len(batches) # 0 THEN Ok(SerializeBatchesFrom(batches, 1, <<>>)) ELSE Ok(<<>>)

(* ---------------------- Arrow IPC streams (reading) ------------------ *)

\* One framed message at position pos of the buffer: "eof" past the last
\* byte, "end" on a zero length, the metadata and body of a message, or an
\* error on a truncated one.  The length prefix counts the metadata block with
\* its padding; the body length is named by the metadata.
BodyLength(meta) ==
    IF Len(meta) >= 4 /\ meta[1] = MessageRecordBatch THEN meta[4] ELSE 0

ReadMessage(buf, pos) ==
    IF pos + 3 > Len(buf) THEN [kind |-> "eof"]
    ELSE LET marked == SubSeq(buf, pos, pos + 3) = ContinuationMarker
             lenpos == IF marked THEN pos + 4 ELSE pos
         IN  IF lenpos + 3 > Len(buf) THEN [kind |-> "err"]
             ELSE LET len == FromLeBytes(SubSeq(buf, lenpos, lenpos + 3))
                      start == lenpos + 4
                  IN  IF len = 0 THEN [kind |-> "end"]
                      ELSE IF start + len - 1 > Len(buf) THEN [kind |-> "err"]
                      ELSE LET meta == SubSeq(buf, start, start + len - 1)
                               body == BodyLength(meta)
                           IN  IF start + len + body - 1 > Len(buf) THEN [kind |-> "err"]
                               ELSE [kind |-> "msg",
                                     meta |-> meta,
                                     body |-> SubSeq(buf, start + len, start + len + body - 1),
                                     next |-> start + len + body]

\* The schema a schema message's metadata names.
DecodeSchema(meta) ==
    IF Len(meta) < 2 \/ meta[1] # MessageSchema \/ Len(meta) < 2 + 3 * meta[2]
    THEN Err("Arrow")
    ELSE LET field(k) == SubSeq(meta, 3 * k, 3 * k + 2)
         IN  IF \A k \in 1..meta[2] :
                    /\ field(k)[1] \in 1..Len(FieldNames)
                    /\ field(k)[2] \in 1..Len(DataTypeCodes)
                    /\ field(k)[3] \in {0, 1}
             THEN Ok([k \in 1..meta[2] |->
                        Field(FieldNames[field(k)[1]], DataTypeCodes[field(k)[2]],
                              field(k)[3] = 1)])
             ELSE Err("Arrow")

\* The batch a batch message holds, read against the schema of the stream.
DecodeBatch(schema, meta, body) ==
    IF Len(meta) < 4 \/ meta[1] # MessageRecordBatch THEN Err("Arrow")
    ELSE LET n == meta[2]
             c == meta[3]
         IN  IF c # Len(schema) \/ Len(body) < 2 * n * c THEN Err("Arrow")
             ELSE Ok([schema   |-> schema,
                      columns  |-> [k \in 1..c |->
                          [data_type |-> schema[k].data_type,
                           values    |-> SubSeq(body, 2 * n * (k - 1) + n + 1, 2 * n * k),
                           validity  |-> [i \in 1..n |-> body[2 * n * (k - 1) + i] = 1]]],
                      num_rows |-> n])

\* StreamReader::try_new: the stream starts with its schema message.
StreamReaderTryNew(buf) ==
    LET first == ReadMessage(buf, 1)
    IN  IF first.kind # "msg" THEN Err("Arrow")
        ELSE LET schema == DecodeSchema(first.meta)
             IN  IF schema.ok THEN Ok([schema |-> schema.v, buf |-> buf, pos |-> first.next])
                 ELSE Err("Arrow")

\* reader.collect::<Result<Vec<_>, _>>(): every batch message up to the end
\* of the stream, or the first error.
RECURSIVE CollectBatches(_, _, _)
CollectBatches(reader, pos, batches) ==
    LET msg == ReadMessage(reader.buf, pos)
    IN  IF msg.kind \in {"eof", "end"} THEN Ok(batches)
        ELSE IF msg.kind = "err" THEN Err("Arrow")
        ELSE LET batch == DecodeBatch(reader.schema, msg.meta, msg.body)
             IN  IF batch.ok THEN CollectBatches(reader, msg.next, Append(batches, batch.v))
                 ELSE Err("Arrow")

\* The caller's encoder: a message as the IPC stream format frames it, the
\* length prefix counting the padded metadata block.
PeerMessage(encoded) ==
    ContinuationMarker
      \o LeBytes(Len(AlignTo(encoded.ipc_message, 8)))
      \o AlignTo(encoded.ipc_message, 8)
      \o encoded.arrow_data

PeerSchemaBuffer(schema) == PeerMessage(SchemaToBytes(schema))

PeerRecordsBuffer(batches) ==
    Concat([k \in 1..Len(batches) |-> PeerMessage(EncodeBatch(batches[k]).batch)])

(* ------------------------ typed Invoke request ----------------------- *)

\* InputRecords: aId, schema and records, the two buffers base64 strings.
DeInputRecords(v) ==
    IF ~StructShape(v, 3) THEN Err("Deserialize")
    ELSE LET a_id    == FieldOf(v, "aId", 1)
             schema  == FieldOf(v, "schema", 2)
             records == FieldOf(v, "records", 3)
         IN  IF IsNone(a_id) \/ IsNone(schema) \/ IsNone(records)
             THEN Err("Deserialize")
             ELSE IF ~DeString(Unwrap(a_id)).ok THEN Err("Deserialize")
             ELSE IF ~Base64Deserialize(Unwrap(schema)).ok
             THEN Base64Deserialize(Unwrap(schema))
             ELSE IF ~Base64Deserialize(Unwrap(records)).ok
             THEN Base64Deserialize(Unwrap(records))
             ELSE Ok([a_id    |-> DeString(Unwrap(a_id)).v,
                      schema  |-> Base64Deserialize(Unwrap(schema)).v,
                      records |-> Base64Deserialize(Unwrap(records)).v])

\* OutputSchemaWrapper: one base64 buffer.
DeOutputSchemaWrapper(v) ==
    IF ~StructShape(v, 1) THEN Err("Deserialize")
    ELSE LET schema == FieldOf(v, "schema", 1)
         IN  IF IsNone(schema) THEN Err("Deserialize")
             ELSE IF ~Base64Deserialize(Unwrap(schema)).ok
             THEN Base64Deserialize(Unwrap(schema))
             ELSE Ok([schema |-> Base64Deserialize(Unwrap(schema)).v])

\* serde_json::from_value::<AthenaUDFRequest>: the fields in declaration
\* order, the first failure is the error.
DeUdfRequest(payload) ==
    IF payload.j # "obj" THEN Err("Deserialize")
    ELSE LET ty == Required(payload, "@type")
             id == Required(payload, "identity")
             ir == Required(payload, "inputRecords")
             os == Required(payload, "outputSchema")
             mn == Required(payload, "methodName")
             ft == Required(payload, "functionType")
         IN  IF IsNone(ty) \/ IsNone(id) \/ IsNone(ir) \/ IsNone(os) \/ IsNone(mn) \/ IsNone(ft)
             THEN Err("Deserialize")
             ELSE IF ~DeString(Unwrap(ty)).ok \/ ~DeIdentity(Unwrap(id)).ok
             THEN Err("Deserialize")
             ELSE IF ~DeInputRecords(Unwrap(ir)).ok THEN DeInputRecords(Unwrap(ir))
             ELSE IF ~DeOutputSchemaWrapper(Unwrap(os)).ok
             THEN DeOutputSchemaWrapper(Unwrap(os))
             ELSE IF ~DeString(Unwrap(mn)).ok \/ ~DeString(Unwrap(ft)).ok
             THEN Err("Deserialize")
             ELSE Ok([request_type  |-> DeString(Unwrap(ty)).v,
                      identity      |-> DeIdentity(Unwrap(id)).v,
                      input_records |-> DeInputRecords(Unwrap(ir)).v,
                      output_schema |-> DeOutputSchemaWrapper(Unwrap(os)).v,
                      method_name   |-> DeString(Unwrap(mn)).v,
                      function_type |-> DeString(Unwrap(ft)).v])

\* AthenaUDFRequest::read_input_batches: one stream made of the schema buffer
\* followed by the records buffer.
ReadInputBatches(req) ==
    LET reader == StreamReaderTryNew(req.input_records.schema \o req.input_records.records)
    IN  IF ~reader.ok THEN Err("StreamReader")
        ELSE LET batches == CollectBatches(reader.v, reader.v.pos, <<>>)
             IN  IF batches.ok THEN batches ELSE Err("ReadBatch")

\* AthenaUDFRequest::read_output_schema
ReadOutputSchema(req) ==
    LET reader == StreamReaderTryNew(req.output_schema.schema)
    IN  IF reader.ok THEN Ok(reader.v.schema) ELSE Err("Arrow")

\* Mutant: the name of the last field.
OutputColName_LastField(output_schema) ==
    IF Len(output_schema) = 0 THEN Panic("field index out of bounds")
    ELSE Ok(output_schema[Len(output_schema)].name)

\* output_schema.field(0).name(): field(0) panics on a schema with no field.
OutputColName(output_schema) ==
    IF Len(output_schema) = 0 THEN Panic("field index out of bounds")
    ELSE Ok(output_schema[1].name)

(* ----------------------------- responses ----------------------------- *)

Capabilities == 23
SerdeVersion == 5
StatusCode == 200

\* Mutant: the two echoed fields change places.
PingHandle_SwapEcho(ping_req) ==
    [variant |-> "PingResponse",
     response_type |-> Text("PingResponse"),
     catalog_name  |-> ping_req.query_id,
     query_id      |-> ping_req.catalog_name,
     source_type   |-> Text("athena_udf_rust"),
     capabilities  |-> Capabilities,
     serde_version |-> Some(SerdeVersion)]

\* PingRequest::handle
PingHandle(ping_req) ==
    [variant |-> "PingResponse",
     response_type |-> Text("PingResponse"),
     catalog_name  |-> ping_req.catalog_name,
     query_id      |-> ping_req.query_id,
     source_type   |-> Text("athena_udf_rust"),
     capabilities  |-> Capabilities,
     serde_version |-> Some(SerdeVersion)]

\* Mutant: the schema buffer is written from the first batch produced.
FromBatches_BatchSchema(method_name, a_id, schema, batches) ==
    Ok([variant |-> "UserDefinedFunctionResponse",
        response_type |-> Text("UserDefinedFunctionResponse"),
        method_name   |-> method_name,
        records       |-> [a_id    |-> a_id,
                           schema  |-> SerializeSchema(IF batches = <<>> THEN schema
                                                       ELSE batches[1].schema).v,
                           records |-> SerializeBatches(batches).v]])

\* Mutant: the method name and the correlation token change places.
FromBatches_SwapEcho(method_name, a_id, schema, batches) ==
    Ok([variant |-> "UserDefinedFunctionResponse",
        response_type |-> Text("UserDefinedFunctionResponse"),
        method_name   |-> a_id,
        records       |-> [a_id    |-> method_name,
                           schema  |-> SerializeSchema(schema).v,
                           records |-> SerializeBatches(batches).v]])

\* AthenaUDFResponse::from_batches
FromBatches(method_name, a_id, schema, batches) ==
    LET schema_buffer == SerializeSchema(schema)
        records_buffer == SerializeBatches(batches)
    IN  IF ~schema_buffer.ok THEN schema_buffer
        ELSE IF ~records_buffer.ok THEN records_buffer
        ELSE Ok([variant |-> "UserDefinedFunctionResponse",
                 response_type |-> Text("UserDefinedFunctionResponse"),
                 method_name   |-> method_name,
                 records       |-> [a_id    |-> a_id,
                                    schema  |-> schema_buffer.v,
                                    records |-> records_buffer.v]])

\* Option<String> as serde writes it: null or the string.
OptionStringDoc(o) == IF IsNone(o) THEN DNull ELSE DString(Unwrap(o))

\* #[derive(Serialize)] for PingResponse: the fields in declaration order,
\* serdeVersion skipped when None.
SerializePingResponse(r) ==
    DObject(<<Member("@type", DString(r.response_type)),
              Member("catalogName", OptionStringDoc(r.catalog_name)),
              Member("queryId", OptionStringDoc(r.query_id)),
              Member("sourceType", DString(r.source_type)),
              Member("capabilities", DNumber(r.capabilities))>>
            \o (IF IsNone(r.serde_version) THEN <<>>
                ELSE <<Member("serdeVersion", DNumber(Unwrap(r.serde_version)))>>))

\* #[derive(Serialize)] for AthenaUDFResponse and OutputRecords
SerializeUdfResponse(r) ==
    DObject(<<Member("@type", DString(r.response_type)),
              Member("methodName", DString(r.method_name)),
              Member("records",
                     DObject(<<Member("aId", DString(r.records.a_id)),
                               Member("schema", Base64Serialize(r.records.schema)),
                               Member("records", Base64Serialize(r.records.records))>>))>>)

\* #[serde(untagged)] AthenaResponse: the variant's own fields.
SerializeResponse(response) ==
    IF response.variant = "PingResponse" THEN SerializePingResponse(response)
    ELSE SerializeUdfResponse(response)

\* Mutant: a body that does not parse is passed on as a Direct payload.
ParseRequest_DirectOnBadBody(payload) ==
    LET body == GetStr(payload, "body")
    IN  IF IsSome(body) /\ FromStr(Unwrap(body)).ok
        THEN Ok([payload |-> FromStr(Unwrap(body)).v, is_http |-> TRUE])
        ELSE Ok([payload |-> payload, is_http |-> FALSE])

\* AthenaResponse::parse_request
ParseRequest(payload) ==
    LET body == GetStr(payload, "body")
    IN  IF IsSome(body)
        THEN LET parsed == FromStr(Unwrap(body))
             IN  IF parsed.ok THEN Ok([payload |-> parsed.v, is_http |-> TRUE])
                 ELSE Err("Json")
        ELSE Ok([payload |-> payload, is_http |-> FALSE])

\* Mutant: the response is returned unwrapped whatever the mode.
WrapResponse_IgnoreMode(response, is_http) ==
    Ok(SerializedValue(SerializeResponse(response)))

\* AthenaResponse::wrap_response
WrapResponse(response, is_http) ==
    IF is_http
    THEN Ok(JObject([statusCode |-> JNumber(StatusCode),
                     headers |-> JObject("content-type" :> JString(Text("application/json"))),
                     body |-> JString(SerializedText(SerializeResponse(response))),
                     cookies |-> JArray(<<>>),
                     isBase64Encoded |-> JBool(FALSE)]))
    ELSE Ok(SerializedValue(SerializeResponse(response)))

(* ------------------------- the UDF handler --------------------------- *)

\* The registry of examples/simple-udf: name => fn : (inputs) -> output.
FunctionTable ==
    [string_reverse |-> [sig |-> <<TypeParam("Utf8", FALSE)>>,
                         out |-> TypeParam("Utf8", FALSE)],
     add_numbers    |-> [sig |-> <<TypeParam("Int64", FALSE), TypeParam("Int64", FALSE)>>,
                         out |-> TypeParam("Int64", FALSE)],
     multiply       |-> [sig |-> <<TypeParam("Int64", FALSE), TypeParam("Int64", FALSE)>>,
                         out |-> TypeParam("Int64", FALSE)],
     concat_three   |-> [sig |-> <<TypeParam("Utf8", FALSE), TypeParam("Utf8", FALSE),
                                   TypeParam("Utf8", FALSE)>>,
                         out |-> TypeParam("Utf8", FALSE)],
     uppercase_filtered |-> [sig |-> <<TypeParam("Utf8", FALSE)>>,
                             out |-> TypeParam("Utf8", TRUE)]]

\* The outcome of process_N as a Result.
ProcessorResult(res) ==
    CASE res.kind = "ok"  -> Ok(res.batch)
      [] res.kind = "err" -> Err(res.error)
      [] OTHER            -> Panic("column index out of bounds")

\* The closure athena_udf_handler! builds: match method_name { .. }.
UdfHandler(input_batch, method_name, output_col_name) ==
    IF method_name.kind = "text" /\ method_name.chars \in DOMAIN FunctionTable
    THEN LET f == FunctionTable[method_name.chars]
         IN  ProcessorResult(ProcessN(input_batch, f.sig, f.out, output_col_name))
    ELSE Err("UnknownFunction")

\* The closures handed to handle_athena_request: the one athena_udf_handler!
\* builds, and a hand-written one with a check of its own before the
\* dispatch, which refuses a batch of a single row.
Handlers == {"registry", "custom"}

\* processor(batch, &self.method_name, output_col_name)
Processor(udf_handler, input_batch, method_name, output_col_name) ==
    IF udf_handler = "custom" /\ input_batch.num_rows = 1 THEN Err("Rejected")
    ELSE UdfHandler(input_batch, method_name, output_col_name)

\* Mutant: a batch that fails is left out and the next ones are processed.
RECURSIVE MapProcessor_SkipFailed(_, _, _, _, _, _)
MapProcessor_SkipFailed(processor, input_batches, method_name, output_col_name, k, outputs) ==
    IF k > Len(input_batches) THEN Ok(outputs)
    ELSE LET r == Processor(processor, input_batches[k], method_name, output_col_name)
         IN  MapProcessor_SkipFailed(processor, input_batches, method_name, output_col_name,
                                     k + 1, IF r.ok THEN Append(outputs, r.v) ELSE outputs)

\* input_batches.iter().map(processor).collect(): the output batches in
\* order, or the first failure.
RECURSIVE MapProcessor(_, _, _, _, _, _)
MapProcessor(processor, input_batches, method_name, output_col_name, k, outputs) ==
    IF k > Len(input_batches) THEN Ok(outputs)
    ELSE LET r == Processor(processor, input_batches[k], method_name, output_col_name)
         IN  IF r.ok
             THEN MapProcessor(processor, input_batches, method_name, output_col_name,
                               k + 1, Append(outputs, r.v))
             ELSE r

\* AthenaUDFRequest::process_with
ProcessWith(req, processor) ==
    LET input_batches == ReadInputBatches(req)
        output_schema == ReadOutputSchema(req)
    IN  IF ~input_batches.ok THEN input_batches
        ELSE IF ~output_schema.ok THEN output_schema
        ELSE LET output_col_name == OutputColName(output_schema.v)
             IN  IF ~output_col_name.ok THEN output_col_name
                 ELSE LET output_batches ==
                              MapProcessor(processor, input_batches.v, req.method_name,
                                           output_col_name.v, 1, <<>>)
                      IN  IF ~output_batches.ok THEN output_batches
                          ELSE FromBatches(req.method_name, req.input_records.a_id,
                                           output_schema.v, output_batches.v)

\* The request type of handle_athena_request: the payload's "@type" string.
RequestType(actual_payload) == GetStr(actual_payload, "@type")

\* Mutant: any request type but the Invoke one is taken for a Ping.
Route_PingByDefault(request_type) ==
    IF request_type = Text("UserDefinedFunctionRequest") THEN "udf" ELSE "ping"

\* match request_type { "PingRequest" => .., "UserDefinedFunctionRequest" => .., _ => .. }
Route(request_type) ==
    IF request_type = Text("PingRequest") THEN "ping"
    ELSE IF request_type = Text("UserDefinedFunctionRequest") THEN "udf"
    ELSE "unknown"

\* The response of handle_athena_request for a request type.
Respond(request_type, actual_payload, udf_handler) ==
    IF Route(request_type) = "ping"
    THEN LET ping_req == DePingRequest(actual_payload)
         IN  IF ping_req.ok THEN Ok(PingHandle(ping_req.v)) ELSE ping_req
    ELSE IF Route(request_type) = "udf"
    THEN LET udf_req == DeUdfRequest(actual_payload)
         IN  IF udf_req.ok THEN ProcessWith(udf_req.v, udf_handler) ELSE udf_req
    ELSE Err("UnknownRequestType")

\* handle_athena_request
HandleAthenaRequest(event, udf_handler) ==
    LET parsed == ParseRequest(event)
    IN  IF ~parsed.ok THEN parsed
        ELSE LET request_type == RequestType(parsed.v.payload)
             IN  IF IsNone(request_type) THEN Err("MissingType")
                 ELSE LET response == Respond(Unwrap(request_type), parsed.v.payload, udf_handler)
                      IN  IF response.ok THEN WrapResponse(response.v, parsed.v.is_http)
                          ELSE response

(* ------------------------ inbound events ----------------------------- *)

\* An object of the given keys; a key whose value is None is left out.
ObjectOf(keys, optional) ==
    JObject([k \in {keys[i] : i \in {j \in 1..Len(keys) : IsSome(optional[j])}} |->
                Unwrap(optional[CHOOSE i \in 1..Len(keys) : keys[i] = k])])

\* The value with one more key.
WithKey(value, key, v) ==
    JObject([k \in DOMAIN value.o \cup {key} |-> IF k = key THEN v ELSE value.o[k]])

\* Ping payloads: identity absent, an object, an array or a number;
\* catalogName and queryId absent, null, a string or a number.
PingPayloads ==
    { ObjectOf(<<"@type", "identity", "catalogName", "queryId">>,
               <<Some(JString(Text("PingRequest"))), id, cn, qi>>)
      : id \in {None, Some(JObject(<<>>)), Some(JObject([id |-> JString(Text("u1"))])),
                Some(JArray(<<>>)), Some(JNumber(7))},
        cn \in {None, Some(JNull), Some(JString(Text("c1"))), Some(JNumber(1))},
        qi \in {None, Some(JNull), Some(JString(Text("q1")))} }

\* Payloads with another discriminator, or none, and values that are no
\* object.
OtherPayloads ==
    { ObjectOf(<<"@type", "identity", "catalogName", "methodName">>,
               <<ty, Some(JObject(<<>>)), Some(JString(Text("c1"))), mn>>)
      : ty \in {None, Some(JNull), Some(JNumber(1)), Some(JString(Text("Other"))),
                Some(JString(Text("pingrequest")))},
        mn \in {None, Some(JString(Text("add_numbers")))} }
      \cup {JNull, JNumber(3), JArray(<<>>), JString(Text("PingRequest"))}

\* The input streams of an Invoke: a schema and batches of that schema.
InputSchemas ==
    { <<Field("a", "Int64", TRUE), Field("b", "Int64", TRUE)>>,
      <<Field("a", "Utf8", TRUE)>> }

BatchOf(schema, bitmaps) ==
    [schema   |-> schema,
     columns  |-> [k \in 1..Len(schema) |-> InputColumn(k, schema[k].data_type, bitmaps[k])],
     num_rows |-> Len(bitmaps[1])]

BatchPool(schema) ==
    { BatchOf(schema, [k \in 1..Len(schema) |-> <<TRUE, TRUE>>]),
      BatchOf(schema, [k \in 1..Len(schema) |-> <<k # Len(schema)>>]) }

OutputSchemas ==
    { <<Field("output", "Utf8", TRUE)>>,
      <<Field("sum", "Int64", TRUE), Field("b", "Int64", FALSE), Field("c", "Utf8", TRUE)>>,
      <<>> }

MethodNames ==
    {Text("add_numbers"), Text("string_reverse"), Text("uppercase_filtered"),
     Text("no_such_function")}

InvokePayload(a_id, schema, records, output_schema, method_name) ==
    JObject([k \in {"@type", "identity", "inputRecords", "outputSchema",
                    "methodName", "functionType"} |->
        CASE k = "@type"        -> JString(Text("UserDefinedFunctionRequest"))
          [] k = "identity"     -> JObject(<<>>)
          [] k = "inputRecords" -> JObject([aId     |-> JString(a_id),
                                            schema  |-> JString(Base64Encode(schema)),
                                            records |-> JString(Base64Encode(records))])
          [] k = "outputSchema" -> JObject([schema |-> JString(Base64Encode(output_schema))])
          [] k = "methodName"   -> JString(method_name)
          [] OTHER              -> JString(Text("SCALAR"))])

InvokePayloads ==
    { InvokePayload(a_id, PeerSchemaBuffer(schema), PeerRecordsBuffer(batches),
                    PeerSchemaBuffer(output_schema), method_name)
      : a_id \in {Text("a1"), Text("")}, schema \in InputSchemas, output_schema \in OutputSchemas,
        method_name \in MethodNames,
        batches \in UNION {SeqsUpTo(BatchPool(s), MaxBatches) : s \in InputSchemas} }

\* An Invoke whose buffers or fields are damaged.
DamagedPayloads ==
    LET schema == <<Field("a", "Utf8", TRUE)>>
        good == PeerSchemaBuffer(schema)
        records == PeerRecordsBuffer(<<BatchOf(schema, <<(<<TRUE, TRUE>>)>>)>>)
        two == records \o records
        p == InvokePayload(Text("a1"), good, records, good, Text("string_reverse"))
        without(v, key) == JObject([k \in DOMAIN v.o \ {key} |-> v.o[k]])
    IN  { without(p, key) : key \in {"identity", "inputRecords", "outputSchema", "methodName",
                                      "functionType"} }
        \cup
        { InvokePayload(Text("a1"), good, SubSeq(records, 1, Len(records) - 1), good, Text("string_reverse")),
          InvokePayload(Text("a1"), good, SubSeq(two, 1, Len(two) - 1), good, Text("string_reverse")),
          InvokePayload(Text("a1"), good, SubSeq(two, 1, Len(records) + 2), good, Text("string_reverse")),
          InvokePayload(Text("a1"), good, SubSeq(two, 1, Len(records) + 6), good, Text("string_reverse")),
          InvokePayload(Text("a1"), <<>>, records, good, Text("string_reverse")),
          InvokePayload(Text("a1"), good, records, <<>>, Text("string_reverse")),
          InvokePayload(Text("a1"), good, records \o good, good, Text("string_reverse")),
          InvokePayload(Text("a1"), PeerSchemaBuffer(<<Field("a", "Int64", TRUE)>>),
                        PeerRecordsBuffer(<<BatchOf(<<Field("a", "Int64", TRUE)>>,
                                                    <<(<<TRUE, TRUE>>)>>)>>),
                        good, Text("add_numbers")),
          WithKey(p, "methodName", JNumber(1)),
          WithKey(p, "functionType", JNull),
          WithKey(p, "identity", JString(Text("me"))),
          WithKey(p, "identity", JArray(<<JString(Text("u1"))>>)),
          WithKey(p, "identity", JObject([arn |-> JNumber(1)])),
          WithKey(p, "outputSchema", JObject(<<>>)),
          WithKey(p, "outputSchema", JObject([schema |-> JNumber(1)])),
          WithKey(p, "inputRecords", without(p.o["inputRecords"], "aId")),
          WithKey(p, "inputRecords", without(p.o["inputRecords"], "schema")),
          WithKey(p, "inputRecords", without(p.o["inputRecords"], "records")),
          WithKey(p, "inputRecords", WithKey(p.o["inputRecords"], "aId", JNumber(1))),
          WithKey(p, "inputRecords", WithKey(p.o["inputRecords"], "records", JArray(<<>>))),
          WithKey(p, "inputRecords",
                  JArray(<<JString(Text("a1")), JString(Base64Encode(good)),
                           JString(Base64Encode(records))>>)),
          WithKey(p, "outputSchema", JObject([schema |-> JString(Text("!not base64!"))])),
          WithKey(p, "outputSchema",
                  JObject([schema |-> JString([kind |-> "b64", sextets |-> <<1, 1, 64, 64>>])])),
          WithKey(p, "inputRecords",
                  JObject([aId     |-> JString(Text("a1")),
                           schema  |-> JString(Text("!not base64!")),
                           records |-> JString(Base64Encode(records))])),
          WithKey(p, "inputRecords",
                  JObject([aId     |-> JString(Text("a1")),
                           schema  |-> JString(Base64Encode(good)),
                           records |-> JString([kind |-> "b64", sextets |-> <<1, 2, 3>>])])),
          WithKey(p, "inputRecords", JNull) }

Payloads == PingPayloads \cup OtherPayloads \cup InvokePayloads \cup DamagedPayloads

\* The payload as a Lambda Function URL delivers it: JSON text in `body`.
HttpWrapped(payload) ==
    JObject([body |-> JString(JsonText(ValueToDoc(payload))),
             isBase64Encoded |-> JBool(FALSE)])

\* Values whose `body` is not a string, or is a string that is not the JSON
\* text of a request.
OddBodies ==
    LET ping == ObjectOf(<<"@type", "identity", "catalogName">>,
                         <<Some(JString(Text("PingRequest"))), Some(JObject(<<>>)),
                           Some(JString(Text("c1")))>>)
    IN  { WithKey(ping, "body", JNumber(5)),
          WithKey(ping, "body", JNull),
          WithKey(ping, "body", JObject([x |-> JNull])),
          WithKey(ping, "body", JString(Text("not json"))),
          WithKey(ping, "body", JString(Text(""))),
          WithKey(ping, "body", JString(JsonText(DObject(<<Member("@type", DBad)>>)))),
          JObject([body |-> JString(JsonText(DNumber(3)))]),
          HttpWrapped(WithKey(ping, "body", JString(Text("not json")))),
          JObject([body |-> JString(JsonText(ValueToDoc(HttpWrapped(ping))))]),
          JObject([body |-> JString(JsonText(DObject(
              <<Member("@type", DString(Text("Other"))),
                Member("identity", DObject(<<>>)),
                Member("queryId", DString(Text("q1"))),
                Member("@type", DString(Text("PingRequest")))>>)))]) }

Events == Payloads \cup {HttpWrapped(p) : p \in Payloads} \cup OddBodies

(* ------------------- handle_athena_request, by steps ----------------- *)

Pending == [ok |-> FALSE, pending |-> TRUE]
NoResponse == [variant |-> "none"]
NoRequest == [method_name |-> Text("")]
NoWork == [input_batches |-> <<>>, output_schema |-> <<>>, output_col_name |-> "",
           output_batches |-> <<>>]

RequestIdle ==
    /\ r_pc = "idle"
    /\ r_event = JNull
    /\ r_handler = "none"
    /\ r_payload = JNull
    /\ r_is_http = FALSE
    /\ r_request = NoRequest
    /\ r_work = NoWork
    /\ r_response = NoResponse
    /\ r_result = Pending
    /\ r_log = [ping_handled |-> 0, handler_calls |-> <<>>]

\* Mutant: a failure is returned as a value that describes it.
Return_ErrorAsValue(outcome) ==
    /\ r_result' = IF outcome.ok THEN outcome
                   ELSE Ok(JObject([errorMessage |-> JString(Text("error"))]))
    /\ r_pc' = "returned"

\* The invocation ends with this outcome.
Return(outcome) ==
    /\ r_result' = outcome
    /\ r_pc' = "returned"

\* The Lambda runtime delivers an event.
Receive ==
    /\ r_pc = "idle"
    /\ \E event \in Events : r_event' = event
    /\ \E udf_handler \in Handlers : r_handler' = udf_handler
    /\ r_pc' = "received"
    /\ UNCHANGED <<r_payload, r_is_http, r_request, r_work, r_response, r_result, r_log,
                   engine_vars, codec_vars, h_done>>

\* let (actual_payload, is_http) = AthenaResponse::parse_request(event.payload)?
ParseRequestStep ==
    /\ r_pc = "received"
    /\ LET parsed == ParseRequest(r_event)
       IN  IF parsed.ok
           THEN /\ r_payload' = parsed.v.payload
                /\ r_is_http' = parsed.v.is_http
                /\ r_pc' = "parsed"
                /\ UNCHANGED r_result
           ELSE /\ Return(parsed)
                /\ UNCHANGED <<r_payload, r_is_http>>
    /\ UNCHANGED <<r_event, r_handler, r_request, r_work, r_response, r_log, engine_vars, codec_vars, h_done>>

\* The request type and the match on it.
ClassifyStep ==
    /\ r_pc = "parsed"
    /\ LET request_type == RequestType(r_payload)
       IN  IF IsNone(request_type) THEN Return(Err("MissingType"))
           ELSE IF Route(Unwrap(request_type)) = "unknown"
           THEN Return(Err("UnknownRequestType"))
           ELSE r_pc' = Route(Unwrap(request_type)) /\ UNCHANGED r_result
    /\ UNCHANGED <<r_event, r_handler, r_payload, r_is_http, r_request, r_work, r_response, r_log,
                   engine_vars, codec_vars, h_done>>

\* The "PingRequest" arm: from_value, then ping_req.handle().
PingStep ==
    /\ r_pc = "ping"
    /\ LET ping_req == DePingRequest(r_payload)
       IN  IF ping_req.ok
           THEN /\ r_response' = PingHandle(ping_req.v)
                /\ r_log' = [r_log EXCEPT !.ping_handled = @ + 1]
                /\ r_pc' = "responded"
                /\ UNCHANGED r_result
           ELSE /\ Return(ping_req)
                /\ UNCHANGED <<r_response, r_log>>
    /\ UNCHANGED <<r_event, r_handler, r_payload, r_is_http, r_request, r_work, engine_vars, codec_vars, h_done>>

\* The "UserDefinedFunctionRequest" arm: from_value.
DecodeUdfStep ==
    /\ r_pc = "udf"
    /\ LET udf_req == DeUdfRequest(r_payload)
       IN  IF udf_req.ok
           THEN /\ r_request' = udf_req.v
                /\ r_pc' = "decoded"
                /\ UNCHANGED r_result
           ELSE /\ Return(udf_req)
                /\ UNCHANGED r_request
    /\ UNCHANGED <<r_event, r_handler, r_payload, r_is_http, r_work, r_response, r_log, engine_vars, codec_vars, h_done>>

\* Mutant: the output batches collected by the invocation before are kept.
StaleOutputs == r_work.output_batches

\* collect(): the output batches are gathered in a vector of their own.
FreshOutputs == <<>>

\* process_with: the input batches, the output schema and its first field.
ReadInputsStep ==
    /\ r_pc = "decoded"
    /\ LET input_batches == ReadInputBatches(r_request)
           output_schema == ReadOutputSchema(r_request)
       IN  IF ~input_batches.ok THEN Return(input_batches) /\ UNCHANGED r_work
           ELSE IF ~output_schema.ok THEN Return(output_schema) /\ UNCHANGED r_work
           ELSE IF ~OutputColName(output_schema.v).ok
           THEN Return(OutputColName(output_schema.v)) /\ UNCHANGED r_work
           ELSE /\ r_work' = [input_batches   |-> input_batches.v,
                              output_schema   |-> output_schema.v,
                              output_col_name |-> OutputColName(output_schema.v).v,
                              output_batches  |-> FreshOutputs]
                /\ r_pc' = "processing"
                /\ UNCHANGED r_result
    /\ UNCHANGED <<r_event, r_handler, r_payload, r_is_http, r_request, r_response, r_log, engine_vars, codec_vars, h_done>>

\* process_with: the processor on the next input batch.
ProcessBatchStep ==
    /\ r_pc = "processing"
    /\ Len(r_work.output_batches) < Len(r_work.input_batches)
    /\ LET k == Len(r_work.output_batches) + 1
           r == Processor(r_handler, r_work.input_batches[k], r_request.method_name,
                          r_work.output_col_name)
       IN  /\ r_log' = [r_log EXCEPT !.handler_calls =
                            Append(@, [batch |-> k, method_name |-> r_request.method_name,
                                       output_col_name |-> r_work.output_col_name])]
           /\ IF r.ok
              THEN /\ r_work' = [r_work EXCEPT !.output_batches = Append(@, r.v)]
                   /\ UNCHANGED <<r_pc, r_result>>
              ELSE /\ Return(r)
                   /\ UNCHANGED r_work
    /\ UNCHANGED <<r_event, r_handler, r_payload, r_is_http, r_request, r_response, engine_vars, codec_vars, h_done>>

\* process_with: from_batches once every batch is processed.
FromBatchesStep ==
    /\ r_pc = "processing"
    /\ Len(r_work.output_batches) = Len(r_work.input_batches)
    /\ LET response == FromBatches(r_request.method_name, r_request.input_records.a_id,
                                   r_work.output_schema, r_work.output_batches)
       IN  IF response.ok
           THEN /\ r_response' = response.v
                /\ r_pc' = "responded"
                /\ UNCHANGED r_result
           ELSE /\ Return(response)
                /\ UNCHANGED r_response
    /\ UNCHANGED <<r_event, r_handler, r_payload, r_is_http, r_request, r_work, r_log, engine_vars, codec_vars, h_done>>

\* response.wrap_response(is_http)
WrapStep ==
    /\ r_pc = "responded"
    /\ Return(WrapResponse(r_response, r_is_http))
    /\ UNCHANGED <<r_event, r_handler, r_payload, r_is_http, r_request, r_work, r_response, r_log,
                   engine_vars, codec_vars, h_done>>

(* -------------------------- specifications --------------------------- *)

\* The engine: one adapter round trip, or one process_N call.
(* ------------------------- the codec, alone -------------------------- *)

\* The codec's functions applied to arguments of their own, outside a
\* request: one application per behaviour.
CodecIdle == c_in = [op |-> "none"] /\ c_out = <<>>

\* Schemas whose metadata blocks have lengths that are, and are not,
\* multiples of 8.
CodecSchemas ==
    InputSchemas
      \cup { <<Field("a", "Int64", TRUE), Field("b", "Int64", TRUE), Field("c", "Utf8", TRUE)>> }

\* write_ipc_message on an empty buffer, for a metadata block of every length
\* up to the bound, without and with a body.
WriteMessage ==
    /\ c_in.op = "none"
    /\ \E len \in 0..MaxMetadataLen, body \in {<<>>, <<2, 2, 2, 2, 2, 2, 2, 2>>} :
         LET encoded == [ipc_message |-> [k \in 1..len |-> 1], arrow_data |-> body]
         IN  /\ c_in' = [op |-> "write", encoded |-> encoded]
             /\ c_out' = WriteIpcMessage(<<>>, encoded)
    /\ UNCHANGED <<engine_vars, request_vars, h_done>>

\* serde_base64::serialize, the JSON text it makes, then
\* serde_base64::deserialize of that text, for buffers of byte values at the
\* ends and inside of the range of a byte.
Base64RoundTrip ==
    /\ c_in.op = "none"
    /\ \E bytes \in SeqsUpTo({0, 1, 77, 255}, MaxBytes) :
         /\ c_in' = [op |-> "base64", bytes |-> bytes]
         /\ c_out' = [written |-> Base64Serialize(bytes),
                      read |-> Base64Deserialize(SerializedValue(Base64Serialize(bytes)))]
    /\ UNCHANGED <<engine_vars, request_vars, h_done>>

\* serialize_schema and serialize_batches, then read_input_batches on the two
\* buffers.
EncodeDecode ==
    /\ c_in.op = "none"
    /\ \E schema \in CodecSchemas :
         \E batches \in SeqsUpTo(BatchPool(schema), MaxBatches) :
            LET schema_buffer == SerializeSchema(schema)
                records_buffer == SerializeBatches(batches)
            IN  /\ c_in' = [op |-> "stream", schema |-> schema, batches |-> batches]
                /\ c_out' = [schema |-> schema_buffer,
                             records |-> records_buffer,
                             read |-> ReadInputBatches(
                                        [input_records |-> [schema |-> schema_buffer.v,
                                                            records |-> records_buffer.v]])]
    /\ UNCHANGED <<engine_vars, request_vars, h_done>>

(* ------------------- one process, many invocations ------------------ *)

\* A Ping, Invokes that succeed and that fail, Direct and through a Function
\* URL, and a body that is no request.
IsolationEvents ==
    LET strings == <<Field("a", "Utf8", TRUE)>>
        output == PeerSchemaBuffer(<<Field("output", "Utf8", TRUE)>>)
        two == PeerRecordsBuffer(<<BatchOf(strings, <<(<<TRUE, TRUE>>)>>),
                                   BatchOf(strings, <<(<<TRUE, FALSE>>)>>)>>)
        one == PeerRecordsBuffer(<<BatchOf(strings, <<(<<TRUE, TRUE>>)>>),
                                   BatchOf(strings, <<(<<FALSE>>)>>)>>)
        invoke(records, method_name) ==
            InvokePayload(Text("a1"), PeerSchemaBuffer(strings), records, output,
                          Text(method_name))
    IN  { ObjectOf(<<"@type", "identity", "queryId">>,
                   <<Some(JString(Text("PingRequest"))), Some(JObject(<<>>)),
                     Some(JString(Text("q1")))>>),
          invoke(two, "string_reverse"),
          invoke(one, "uppercase_filtered"),
          invoke(two, "no_such_function"),
          HttpWrapped(invoke(one, "string_reverse")),
          JObject([body |-> JString(Text("not json"))]) }

\* The Lambda runtime delivers an event to the process: its first one, or
\* the next one after an invocation has returned.  The closure handed to
\* handle_athena_request is the same for every invocation of the process;
\* the locals of the invocation before are dead storage.
ReceiveIsolated ==
    /\ r_pc \in {"idle", "returned"}
    /\ Len(h_done) < MaxInvocations - 1 \/ r_pc = "idle"
    /\ \E event \in IsolationEvents : r_event' = event
    /\ IF r_pc = "idle"
       THEN /\ \E udf_handler \in Handlers : r_handler' = udf_handler
            /\ UNCHANGED h_done
       ELSE /\ h_done' = Append(h_done, [event |-> r_event, handler |-> r_handler,
                                          result |-> r_result])
            /\ UNCHANGED r_handler
    /\ r_pc' = "received"
    /\ r_result' = Pending
    /\ r_log' = [ping_handled |-> 0, handler_calls |-> <<>>]
    /\ UNCHANGED <<r_payload, r_is_http, r_request, r_work, r_response, engine_vars, codec_vars>>

Init == AdapterIdle /\ ProcIdle /\ RequestIdle /\ CodecIdle /\ h_done = <<>>
Next == WritePlain \/ WriteOption \/ ReadBack \/ ProcessCall
Spec == Init /\ [][Next]_vars

\* The Lambda handler: one event through handle_athena_request.
NextRequest ==
    \/ Receive \/ ParseRequestStep \/ ClassifyStep \/ PingStep \/ DecodeUdfStep
    \/ ReadInputsStep \/ ProcessBatchStep \/ FromBatchesStep \/ WrapStep
SpecRequest == Init /\ [][NextRequest]_vars

\* The Lambda process: one event after the other through
\* handle_athena_request.
NextIsolation ==
    \/ ReceiveIsolated \/ ParseRequestStep \/ ClassifyStep \/ PingStep \/ DecodeUdfStep
    \/ ReadInputsStep \/ ProcessBatchStep \/ FromBatchesStep \/ WrapStep
SpecIsolation == Init /\ [][NextIsolation]_vars

\* The codec's functions on arguments of their own.
NextCodec == WriteMessage \/ Base64RoundTrip \/ EncodeDecode
SpecCodec == Init /\ [][NextCodec]_vars

(* ------------------ the engine's inputs and outputs ------------------ *)

Arity == Len(p_in.sig)
InRows == 1..p_in.batch.num_rows
InColumn(k) == p_in.batch.columns[k]
OutColumn == p_res.batch.columns[1]
Called(i) == \E c \in 1..Len(p_res.calls) : p_res.calls[c].row_idx = i

\* An element of an array as Option<T>.
Element(array, i) == IF array.validity[i] THEN Some(array.values[i]) ELSE None

\* Row i holds a null in a position declared with a plain type.
PlainNullAt(i) ==
    \E k \in 1..Arity :
        /\ k <= NumColumns(p_in.batch)
        /\ ~p_in.sig[k].opt
        /\ ~InColumn(k).validity[i]

\* What user_fn has to be given for row i.
ExpectedArgs(i) ==
    [k \in 1..Arity |->
        IF p_in.sig[k].opt THEN Element(InColumn(k), i) ELSE InColumn(k).values[i]]

\* The output element row i has to produce.
ExpectedElement(i) ==
    IF PlainNullAt(i) THEN None
    ELSE LET r == user_fn(p_in.sig, p_in.out, ExpectedArgs(i))
         IN  IF p_in.out.opt THEN r ELSE Some(r)

(* ------------------------------ claims ------------------------------- *)

\* C1: null propagation. In every process_N call, a row that holds a null in
\* at least one plain-typed input position never reaches user_fn, and when the
\* call returns a batch its output column is null at that row.
C1_NullPropagation ==
    \A i \in InRows :
        PlainNullAt(i) =>
            /\ ~Called(i)
            /\ p_res.kind = "ok" => ~OutColumn.validity[i]

C1_Witness ==
    /\ p_res.kind = "ok"
    /\ Arity = 2
    /\ \E i, j \in InRows :
         /\ InColumn(1).validity[i] /\ ~InColumn(2).validity[i] /\ ~p_in.sig[2].opt
         /\ ~OutColumn.validity[i]
         /\ Called(j) /\ OutColumn.validity[j]

C3_OptionFlattening ==
    /\ (a_pc # "idle" /\ a_in.tp.opt) =>
         /\ ArrayLen(a_arr) = Len(a_in.values)
         /\ \A i \in 1..Len(a_in.values) :
              IF a_in.values[i] = None \/ a_in.values[i] = Some(None)
              THEN IsNull(a_arr, i)
              ELSE ~IsNull(a_arr, i) /\ Value(a_arr, i) = Unwrap(Unwrap(a_in.values[i]))
    /\ (p_res.kind = "ok" /\ p_in.out.opt) =>
         \A c \in 1..Len(p_res.calls) :
            LET r == user_fn(p_in.sig, p_in.out, p_res.calls[c].args)
                i == p_res.calls[c].row_idx
            IN  IF r = None THEN IsNull(OutColumn, i)
                ELSE ~IsNull(OutColumn, i) /\ Value(OutColumn, i) = Unwrap(r)

C3_Witness ==
    /\ a_pc = "written"
    /\ a_in.tp.opt
    /\ Len(a_in.values) = 3
    /\ a_in.values[1] = Some(None) /\ IsNull(a_arr, 1)
    /\ a_in.values[2] = None /\ IsNull(a_arr, 2)
    /\ a_in.values[3] = Some(Some(0)) /\ ~IsNull(a_arr, 3)

\* C4 as claimed: reading every index of write(vs) returns vs, for the plain
\* and for the Option-wrapped adapters.
C4_RoundTripAsClaimed == a_pc = "read" => a_read = a_in.values

\* C4, amended: the plain adapters read back vs[i] at every index (same
\* length, same null positions); the Option-wrapped adapters read back
\* Some(flatten(vs[i])), which is vs[i] unless vs[i] is None, and then it is
\* Some(None).
C4_RoundTrip ==
    a_pc = "read" =>
        /\ Len(a_read) = Len(a_in.values)
        /\ \A i \in 1..Len(a_in.values) :
             IF a_in.tp.opt /\ a_in.values[i] = None
             THEN a_read[i] = Some(None)
             ELSE a_read[i] = a_in.values[i]

C4_Witness ==
    /\ a_pc = "read"
    /\ a_in.tp.opt
    /\ Len(a_in.values) = 3
    /\ a_in.values[1] = None /\ a_read[1] = Some(None)
    /\ a_in.values[2] = Some(Some(0)) /\ a_read[2] = Some(Some(0))
    /\ a_in.values[3] = Some(None) /\ a_read[3] = Some(None)

\* C5: output shape. A process_N call that succeeds on a batch of n rows
\* (n = 0 included) returns a batch of exactly one column, whose field is named
\* output_field_name, with exactly n rows, and output row i is the result
\* computed from input row i.
C5_OutputShape ==
    p_res.kind = "ok" =>
        /\ Len(p_res.batch.columns) = 1
        /\ Len(p_res.batch.schema) = 1
        /\ p_res.batch.schema[1].name = p_in.output_field_name
        /\ p_res.batch.num_rows = p_in.batch.num_rows
        /\ ArrayLen(OutColumn) = p_in.batch.num_rows
        /\ \A i \in InRows : Element(OutColumn, i) = ExpectedElement(i)

C5_Witness ==
    /\ p_res.kind = "ok"
    /\ p_in.batch.num_rows = 2
    /\ p_res.batch.num_rows = 2
    /\ OutColumn.validity[1] /\ OutColumn.validity[2]
    /\ OutColumn.values[1] # OutColumn.values[2]

\* C6: positional type binding. Declared position k is bound to column k of
\* the batch; whenever the array type of a column k among the declared
\* positions differs from the type declared for position k, the call returns
\* the column-type-mismatch error and no batch, and a call that returns a
\* batch found every declared position's column of the declared type.
C6_PositionalBinding ==
    /\ (\E k \in 1..Arity :
           /\ k <= NumColumns(p_in.batch)
           /\ InColumn(k).data_type # p_in.sig[k].ty)
        => /\ p_res.kind = "err"
           /\ p_res.error = "ColumnTypeMismatch"
           /\ p_res.calls = <<>>
    /\ p_res.kind = "ok" =>
           /\ \A k \in 1..Arity : InColumn(k).data_type = p_in.sig[k].ty
           /\ \A c \in 1..Len(p_res.calls) :
                 p_res.calls[c].args = ExpectedArgs(p_res.calls[c].row_idx)

C6_Witness ==
    /\ p_res.kind = "err"
    /\ p_res.error = "ColumnTypeMismatch"
    /\ Arity = 2
    /\ NumColumns(p_in.batch) = 3
    /\ InColumn(1).data_type = p_in.sig[1].ty
    /\ InColumn(2).data_type # p_in.sig[2].ty
    /\ p_in.batch.num_rows = 2

(* --------------------- the request's observations -------------------- *)

\* The inbound value has a `body` field holding a string.
BodyIsString ==
    r_event.j = "obj" /\ "body" \in DOMAIN r_event.o /\ r_event.o["body"].j = "str"

\* parse_request has returned to handle_athena_request, or failed it.
Detected == r_pc \notin {"idle", "received"}

\* Neither PingRequest::handle nor the UDF handler has run.
NothingRan == r_log.ping_handled = 0 /\ r_log.handler_calls = <<>>

\* The payload's discriminator, when it is a string.
TypeIsString ==
    r_payload.j = "obj" /\ "@type" \in DOMAIN r_payload.o /\ r_payload.o["@type"].j = "str"

TypeIs(name) == TypeIsString /\ r_payload.o["@type"].s = Text(name)

\* The match on the request type has been taken.
Classified == r_pc \notin {"idle", "received", "parsed"} /\ ParseRequest(r_event).ok

\* The invocation returned a value.
Succeeded == r_pc = "returned" /\ r_result.ok

\* The HTTP response envelope around a body string.
IsEnvelope(value) ==
    /\ value.j = "obj"
    /\ DOMAIN value.o = {"statusCode", "headers", "body", "cookies", "isBase64Encoded"}
    /\ value.o["statusCode"] = JNumber(200)
    /\ value.o["headers"].j = "obj"
    /\ DOMAIN value.o["headers"].o = {"content-type"}
    /\ value.o["headers"].o["content-type"] = JString(Text("application/json"))
    /\ value.o["body"].j = "str"
    /\ value.o["cookies"] = JArray(<<>>)
    /\ value.o["isBase64Encoded"] = JBool(FALSE)

\* A response object as such: no statusCode field.
IsUnwrapped(value) == value.j = "obj" /\ "statusCode" \notin DOMAIN value.o

\* The payload, sent as it is, is a Direct request.
SentDirect(payload) == ParseRequest(payload).ok /\ ~ParseRequest(payload).v.is_http

\* What the request gives for catalogName or queryId: a string, or nothing
\* (the field is absent or null).
Requested(key) ==
    IF key \in DOMAIN r_payload.o /\ r_payload.o[key].j = "str"
    THEN Some(r_payload.o[key].s) ELSE None

\* The response object the caller receives (the parsed body under HTTP).
ResponseObject ==
    IF r_is_http THEN FromStr(r_result.v.o["body"].s).v ELSE r_result.v

(* C7 as claimed: parse_request reports HTTP mode with the JSON parsed from
   the body exactly when the inbound value has a `body` field holding a
   string, and in every other case reports Direct mode with the inbound
   value unchanged as the payload. *)
C7_AsClaimed ==
    Detected =>
        IF BodyIsString
        THEN /\ r_is_http
             /\ FromStr(r_event.o["body"].s).ok
             /\ r_payload = FromStr(r_event.o["body"].s).v
        ELSE ~r_is_http /\ r_payload = r_event

(* C7: when the inbound value has a `body` field holding a string that
   parses as JSON, parse_request reports HTTP mode and the parsed JSON is the
   payload; when that string does not parse, parse_request fails, the
   invocation returns the JSON error and neither the Ping path nor the UDF
   handler runs; in every other case (no `body`, or a `body` that is not a
   string) it reports Direct mode with the inbound value unchanged. *)
C7_TransportDetection ==
    Detected =>
        IF BodyIsString
        THEN IF FromStr(r_event.o["body"].s).ok
             THEN r_is_http /\ r_payload = FromStr(r_event.o["body"].s).v
             ELSE r_pc = "returned" /\ IsErr(r_result, "Json") /\ NothingRan
        ELSE ~r_is_http /\ r_payload = r_event

\* An HTTP-wrapped request has been unwrapped.
C7_Witness ==
    /\ r_pc = "parsed"
    /\ BodyIsString
    /\ r_is_http
    /\ r_payload = FromStr(r_event.o["body"].s).v
    /\ r_payload # r_event

(* C8: once the request type is matched, a payload whose `@type` is
   "PingRequest" reaches only the Ping path (the UDF handler never runs and
   no Invoke response is built), "UserDefinedFunctionRequest" reaches only
   the Invoke path (PingRequest::handle never runs), any other string fails
   with the unknown-request-type error and a missing or non-string `@type`
   fails with the missing-type error, and in these two failures nothing has
   run. *)
C8_KindClassification ==
    Classified =>
        IF TypeIs("PingRequest")
        THEN /\ r_log.handler_calls = <<>>
             /\ r_response.variant \in {"none", "PingResponse"}
             /\ r_pc \in {"ping", "responded", "returned"}
             /\ Succeeded => r_log.ping_handled = 1
        ELSE IF TypeIs("UserDefinedFunctionRequest")
        THEN /\ r_log.ping_handled = 0
             /\ r_response.variant \in {"none", "UserDefinedFunctionResponse"}
             /\ r_pc \in {"udf", "decoded", "processing", "responded", "returned"}
             /\ Succeeded => Len(r_log.handler_calls) = Len(r_work.input_batches)
        ELSE IF TypeIsString
        THEN r_pc = "returned" /\ IsErr(r_result, "UnknownRequestType") /\ NothingRan
        ELSE r_pc = "returned" /\ IsErr(r_result, "MissingType") /\ NothingRan

\* An Invoke went through the UDF handler, once per batch, and returned.
C8_Witness ==
    /\ Succeeded
    /\ TypeIs("UserDefinedFunctionRequest")
    /\ Len(r_log.handler_calls) = MaxBatches
    /\ r_log.ping_handled = 0

(* C9: of every invocation that returns a value, a Direct one returns the
   response object itself (no statusCode field) and the same payload sent
   HTTP-wrapped returns the envelope {statusCode: 200, headers:
   {content-type: application/json}, body, cookies: [], isBase64Encoded:
   false} whose body parses to that Direct response; an HTTP one returns
   such an envelope, and its body parses to what the payload returns when
   sent Direct; the wrapping always follows the mode detected. *)
C9_TransportSymmetry ==
    Succeeded =>
        IF r_is_http
        THEN /\ IsEnvelope(r_result.v)
             /\ FromStr(r_result.v.o["body"].s).ok
             /\ IsUnwrapped(FromStr(r_result.v.o["body"].s).v)
             /\ SentDirect(r_payload) =>
                    /\ HandleAthenaRequest(r_payload, r_handler).ok
                    /\ HandleAthenaRequest(r_payload, r_handler).v = FromStr(r_result.v.o["body"].s).v
        ELSE /\ IsUnwrapped(r_result.v)
             /\ r_result.v = SerializedValue(SerializeResponse(r_response))
             /\ LET http == HandleAthenaRequest(HttpWrapped(r_event), r_handler)
                IN  /\ http.ok
                    /\ IsEnvelope(http.v)
                    /\ FromStr(http.v.o["body"].s).ok
                    /\ FromStr(http.v.o["body"].s).v = r_result.v

\* An Invoke that arrived HTTP-wrapped returned its envelope.
C9_Witness ==
    /\ Succeeded
    /\ r_is_http
    /\ r_response.variant = "UserDefinedFunctionResponse"
    /\ SentDirect(r_payload)
    /\ IsEnvelope(r_result.v)

(* C10: every response of the Ping path has @type "PingResponse", the
   request's catalogName and queryId (nothing when the request has none),
   sourceType "athena_udf_rust", capabilities 23 and serdeVersion 5, whatever
   the other fields of the request are; the object returned to the caller
   carries exactly these six fields, an absent catalogName or queryId written
   as null. *)
C10_PingAcknowledgment ==
    /\ (Succeeded /\ TypeIs("PingRequest")) => r_response.variant = "PingResponse"
    /\ (Classified /\ TypeIs("PingRequest") /\ r_response.variant # "none") =>
        /\ r_response = [variant       |-> "PingResponse",
                         response_type |-> Text("PingResponse"),
                         catalog_name  |-> Requested("catalogName"),
                         query_id      |-> Requested("queryId"),
                         source_type   |-> Text("athena_udf_rust"),
                         capabilities  |-> 23,
                         serde_version |-> Some(5)]
        /\ r_pc = "returned" =>
              /\ r_result.ok
              /\ ResponseObject =
                    JObject([k \in {"@type", "catalogName", "queryId", "sourceType",
                                    "capabilities", "serdeVersion"} |->
                        CASE k = "@type"        -> JString(Text("PingResponse"))
                          [] k = "catalogName"  ->
                                IF IsSome(Requested(k)) THEN JString(Unwrap(Requested(k)))
                                ELSE JNull
                          [] k = "queryId"      ->
                                IF IsSome(Requested(k)) THEN JString(Unwrap(Requested(k)))
                                ELSE JNull
                          [] k = "sourceType"   -> JString(Text("athena_udf_rust"))
                          [] k = "capabilities" -> JNumber(23)
                          [] OTHER              -> JNumber(5)])

\* A Ping with a catalogName and no queryId has been answered.
C10_Witness ==
    /\ Succeeded
    /\ TypeIs("PingRequest")
    /\ r_response.variant = "PingResponse"
    /\ Requested("catalogName") = Some(Text("c1"))
    /\ Requested("queryId") = None
    /\ r_response.catalog_name = Some(Text("c1"))
    /\ r_response.query_id = None

\* The aId the request gives: a member of inputRecords, or its first element
\* when inputRecords is written as an array.
RequestedAId == Unwrap(FieldOf(r_payload.o["inputRecords"], "aId", 1))

(* C11: every Invoke that returns a value built a response whose @type is
   "UserDefinedFunctionResponse", whose records.aId is the request's
   inputRecords.aId and whose methodName is the request's methodName, in the
   response built and in the object the caller receives, whatever the number
   of input batches. *)
C11_CorrelationEcho ==
    (Succeeded /\ TypeIs("UserDefinedFunctionRequest")) =>
        /\ r_response.variant = "UserDefinedFunctionResponse"
        /\ r_response.response_type = Text("UserDefinedFunctionResponse")
        /\ JString(r_response.method_name) = r_payload.o["methodName"]
        /\ JString(r_response.records.a_id) = RequestedAId
        /\ ResponseObject.o["@type"] = JString(Text("UserDefinedFunctionResponse"))
        /\ ResponseObject.o["methodName"] = r_payload.o["methodName"]
        /\ ResponseObject.o["records"].o["aId"] = RequestedAId

\* An Invoke of MaxBatches batches with an empty correlation token returned.
C11_Witness ==
    /\ Succeeded
    /\ TypeIs("UserDefinedFunctionRequest")
    /\ Len(r_work.input_batches) = MaxBatches
    /\ RequestedAId = JString(Text(""))
    /\ r_response.records.a_id = Text("")
    /\ r_response.method_name = Text("add_numbers")

\* The Invoke was decoded, its input stream and output schema were read, and
\* the invocation has returned.
InvokeReturned ==
    /\ r_pc = "returned"
    /\ Classified
    /\ TypeIs("UserDefinedFunctionRequest")
    /\ r_work.output_col_name # ""

\* The request names a function that the table does not hold.
UnknownMethod ==
    r_request.method_name.kind = "text" => r_request.method_name.chars \notin DOMAIN FunctionTable

(* C12 as claimed: every Invoke whose methodName is not in the table fails
   with the unknown-function error, with no output batch and no response,
   whatever the number of input batches. *)
C12_AsClaimed ==
    (InvokeReturned /\ UnknownMethod) =>
        /\ IsErr(r_result, "UnknownFunction")
        /\ r_work.output_batches = <<>>
        /\ r_response.variant = "none"

\* An Invoke of no input batch naming an unknown function returned a response.
C12_Witness ==
    /\ InvokeReturned
    /\ UnknownMethod
    /\ r_work.input_batches = <<>>
    /\ r_result.ok
    /\ r_response.variant = "UserDefinedFunctionResponse"
    /\ r_response.method_name = Text("no_such_function")
    /\ r_log.handler_calls = <<>>

\* What the handler returns for input batch k of the request.
BatchOutcome(k) ==
    Processor(r_handler, r_work.input_batches[k], r_request.method_name,
              r_work.output_col_name)

\* Batch k is the first one whose processing returns an error.
FirstError(k) ==
    /\ k \in 1..Len(r_work.input_batches)
    /\ \A j \in 1..(k - 1) : BatchOutcome(j).ok
    /\ ~BatchOutcome(k).ok
    /\ ~IsPanic(BatchOutcome(k))

(* C13: when the processing of input batch k is the first to return an
   error, the invocation returns that very error, no response is built (the
   k - 1 output batches already made are dropped), and the handler has run
   on batches 1..k only; process_with and handle_athena_request as functions
   of the request return the same error. *)
C13_FailFast ==
    \A k \in 1..MaxBatches + 1 :
        (InvokeReturned /\ FirstError(k)) =>
            /\ r_result = BatchOutcome(k)
            /\ r_response.variant = "none"
            /\ Len(r_work.output_batches) = k - 1
            /\ [c \in 1..Len(r_log.handler_calls) |-> r_log.handler_calls[c].batch]
                  = [c \in 1..k |-> c]
            /\ ProcessWith(r_request, r_handler) = r_result
            /\ HandleAthenaRequest(r_event, r_handler) = r_result

\* The first batch was processed, the second one was refused, and a third
\* batch, if any, was never handed to the handler.
C13_Witness ==
    /\ InvokeReturned
    /\ FirstError(2)
    /\ Len(r_work.output_batches) = 1
    /\ Len(r_log.handler_calls) = 2
    /\ IsErr(r_result, "Rejected")

(* C14 as claimed: whatever the inbound JSON value, the invocation returns a
   value or an explicit error and never panics. *)
C14_AsClaimed == r_pc = "returned" => ~IsPanic(r_result)

\* An Invoke of add_numbers (two inputs) on a batch of one i64 column ended
\* in the panic of batch.column(1).
C14_Witness ==
    /\ InvokeReturned
    /\ r_request.method_name = Text("add_numbers")
    /\ NumColumns(r_work.input_batches[1]) = 1
    /\ r_work.input_batches[1].columns[1].data_type = "Int64"
    /\ Len(r_log.handler_calls) = 1
    /\ IsPanic(r_result)

(* ---------------------- the framing of a buffer ---------------------- *)

\* The zero bytes that bring a block of len bytes to a multiple of 8.
PadOf(len) == CHOOSE p \in 0..7 : (len + p) % 8 = 0

\* The size of the message framing a metadata block and a body.
FrameLen(meta, body) == 8 + Len(meta) + PadOf(Len(meta)) + Len(body)

\* The bytes of buf from position pos on are one message with this metadata
\* block and this body: marker, length, metadata, zero padding, body.
IsFrameAt(buf, pos, meta, body) ==
    /\ pos + FrameLen(meta, body) - 1 <= Len(buf)
    /\ \A i \in 0..3 : buf[pos + i] = 255
    /\ buf[pos + 4] + 256 * buf[pos + 5] + 65536 * buf[pos + 6] + 16777216 * buf[pos + 7]
          = Len(meta)
    /\ buf[pos + 7] < 128
    /\ \A i \in 1..Len(meta) : buf[pos + 7 + i] = meta[i]
    /\ \A i \in 1..PadOf(Len(meta)) : buf[pos + 7 + Len(meta) + i] = 0
    /\ \A i \in 1..Len(body) : buf[pos + 7 + Len(meta) + PadOf(Len(meta)) + i] = body[i]

\* Where the message of batch k starts in the buffer of these batches.
RECURSIVE FrameStart(_, _)
FrameStart(batches, k) ==
    IF k = 1 THEN 1
    ELSE FrameStart(batches, k - 1)
           + FrameLen(EncodeBatch(batches[k - 1]).batch.ipc_message,
                      EncodeBatch(batches[k - 1]).batch.arrow_data)

(* C15: the schema buffer of every response is exactly one message (marker
   FF FF FF FF, the little-endian length of the metadata block, the metadata
   block, the zero padding, no body), and the records buffer of a response
   with output batches is exactly the messages of the batches, one per batch
   in batch order, each made of marker, length of its metadata block,
   metadata block, zero padding and body. *)
C15_MessageFraming ==
    r_response.variant = "UserDefinedFunctionResponse" =>
        LET schema_buffer == r_response.records.schema
            records_buffer == r_response.records.records
            batches == r_work.output_batches
            meta == SchemaToBytes(r_work.output_schema).ipc_message
        IN  /\ IsFrameAt(schema_buffer, 1, meta, <<>>)
            /\ Len(schema_buffer) = FrameLen(meta, <<>>)
            /\ SubSeq(schema_buffer, 1, 4) = <<255, 255, 255, 255>>
            /\ \A k \in 1..Len(batches) :
                   IsFrameAt(records_buffer, FrameStart(batches, k),
                             EncodeBatch(batches[k]).batch.ipc_message,
                             EncodeBatch(batches[k]).batch.arrow_data)
            /\ Len(records_buffer) = FrameStart(batches, Len(batches) + 1) - 1

\* A response of MaxBatches different output batches, whose schema metadata
\* needs padding.
C15_Witness ==
    /\ r_response.variant = "UserDefinedFunctionResponse"
    /\ Len(r_work.output_batches) = MaxBatches
    /\ r_work.output_batches[1] # r_work.output_batches[MaxBatches]
    /\ PadOf(Len(SchemaToBytes(r_work.output_schema).ipc_message)) > 0
    /\ Len(r_response.records.records) > 0

(* --------------------------------------------------------------------- *)
(* C16: for every metadata length L, write_ipc_message appends             *)
(* (8 - L % 8) % 8 zero bytes after the metadata: a number in 0..7 that is  *)
(* 0 exactly when L is a multiple of 8 and that makes L plus the padding,   *)
(* and the prefix plus metadata plus padding, a multiple of 8, so that the  *)
(* body starts at a multiple of 8 within the message.                       *)
(* --------------------------------------------------------------------- *)
Wrote == c_in.op = "write"
WrittenPad == Len(c_out) - 8 - Len(c_in.encoded.ipc_message) - Len(c_in.encoded.arrow_data)

C16_PaddingArithmetic ==
    Wrote =>
        LET L == Len(c_in.encoded.ipc_message)
            pad == WrittenPad
            body_at == 8 + L + pad
        IN  /\ pad = (8 - (L % 8)) % 8
            /\ pad \in 0..7
            /\ (pad = 0) <=> (L % 8 = 0)
            /\ (L + pad) % 8 = 0
            /\ body_at % 8 = 0
            /\ SubSeq(c_out, 1, 8 + L)
                 = ContinuationMarker \o LeBytes(L) \o c_in.encoded.ipc_message
            /\ \A k \in (8 + L + 1)..body_at : c_out[k] = 0
            /\ SubSeq(c_out, body_at + 1, Len(c_out)) = c_in.encoded.arrow_data

\* A metadata block of a length that is a multiple of 8, and one of a length
\* that is not, each written with a body.
C16_Witness ==
    /\ Wrote
    /\ Len(c_in.encoded.ipc_message) = 13
    /\ WrittenPad = 3
    /\ Len(c_in.encoded.arrow_data) = 8

(* --------------------------------------------------------------------- *)
(* C17: serialize_batches of no batch is an empty buffer, and an Invoke     *)
(* whose input stream holds no batch returns a successful response with an  *)
(* empty records buffer and a non-empty schema buffer.                      *)
(* --------------------------------------------------------------------- *)
\* The Invoke was decoded and returned; its input stream reads as no batch,
\* and its output schema stream reads as a schema.
ZeroBatchInvoke ==
    /\ r_pc = "returned"
    /\ Classified
    /\ TypeIs("UserDefinedFunctionRequest")
    /\ "input_records" \in DOMAIN r_request
    /\ ReadInputBatches(r_request).ok
    /\ ReadInputBatches(r_request).v = <<>>
    /\ ReadOutputSchema(r_request).ok

EmptyRecordsResponse ==
    /\ Succeeded
    /\ r_log.handler_calls = <<>>
    /\ r_response.variant = "UserDefinedFunctionResponse"
    /\ r_response.records.records = <<>>
    /\ r_response.records.schema # <<>>
    /\ r_response.records.schema = SerializeSchema(ReadOutputSchema(r_request).v).v
    /\ ResponseObject.o["records"].o["records"] = JString(Text(""))
    /\ ResponseObject.o["records"].o["schema"].j = "str"
    /\ ResponseObject.o["records"].o["schema"].s # Text("")

(* C17 as claimed: every Invoke of no input batch returns such a response. *)
C17_AsClaimed ==
    /\ SerializeBatches(<<>>) = Ok(<<>>)
    /\ ZeroBatchInvoke => EmptyRecordsResponse

\* What does hold: the response is such whenever the output schema has a
\* field.
C17_WithOutputField ==
    /\ SerializeBatches(<<>>) = Ok(<<>>)
    /\ (ZeroBatchInvoke /\ Len(ReadOutputSchema(r_request).v) > 0) => EmptyRecordsResponse

\* An Invoke of no input batch whose output schema has no field panicked.
C17_Witness ==
    /\ ZeroBatchInvoke
    /\ ReadOutputSchema(r_request).v = <<>>
    /\ IsPanic(r_result)

\* An Invoke of no input batch whose output schema has a field returned.
C17_WitnessWithOutputField ==
    /\ ZeroBatchInvoke
    /\ Len(ReadOutputSchema(r_request).v) = 3
    /\ EmptyRecordsResponse

(* --------------------------------------------------------------------- *)
(* C18: read_input_batches on a valid schema stream followed by an empty    *)
(* records buffer returns no batch and no error, and on serialize_schema(s) *)
(* followed by serialize_batches(bs) it returns bs: same count, order,      *)
(* values and null positions.                                               *)
(* --------------------------------------------------------------------- *)
Streamed == c_in.op = "stream"

\* The length of the metadata block serialize_schema frames for the schema.
SchemaMetadataLen == Len(SchemaToBytes(c_in.schema).ipc_message)

(* C18 as claimed: the batches read are the batches written, whatever the
   schema. *)
C18_AsClaimed ==
    Streamed =>
        /\ c_out.schema.ok /\ c_out.records.ok
        /\ c_out.read.ok
        /\ c_out.read.v = c_in.batches

\* What does hold: the first half, and the round trip for a schema whose
\* metadata block has a length that is a multiple of 8.
C18_EmptyOrAligned ==
    (Streamed /\ (c_in.batches = <<>> \/ SchemaMetadataLen % 8 = 0)) =>
        /\ c_out.read.ok
        /\ c_out.read.v = c_in.batches

\* Two batches written after a schema whose metadata block has a length that
\* is not a multiple of 8, and none of them read, without an error.
C18_Witness ==
    /\ Streamed
    /\ SchemaMetadataLen % 8 = 4
    /\ Len(c_in.batches) = MaxBatches
    /\ c_out.read.ok
    /\ c_out.read.v = <<>>

\* Two batches, one with a null, written and read back.
C18_WitnessAligned ==
    /\ Streamed
    /\ SchemaMetadataLen % 8 = 0
    /\ Len(c_in.batches) = MaxBatches
    /\ \E k \in 1..Len(c_in.batches) : \E c \in 1..Len(c_in.batches[k].columns) :
           \E i \in 1..c_in.batches[k].num_rows : IsNull(c_in.batches[k].columns[c], i)
    /\ c_out.read = Ok(c_in.batches)

(* --------------------------------------------------------------------- *)
(* C19: read_input_batches returns an error, and never a partial list of    *)
(* batches, whenever the schema buffer followed by the records buffer is    *)
(* not validly framed or holds a batch message that does not fit the schema *)
(* read, even if earlier batch messages of the buffer decoded.              *)
(* --------------------------------------------------------------------- *)
\* The buffer from pos on is a sequence of whole framed messages, ended by
\* the end of the buffer or by a zero length.
RECURSIVE WellFramed(_, _)
WellFramed(buf, pos) ==
    LET m == ReadMessage(buf, pos)
    IN  CASE m.kind = "eof" -> pos = Len(buf) + 1
          [] m.kind = "end" -> TRUE
          [] m.kind = "err" -> FALSE
          [] OTHER -> WellFramed(buf, m.next)

\* The Invoke was decoded and the invocation has returned.
DecodedReturned ==
    /\ r_pc = "returned"
    /\ Classified
    /\ TypeIs("UserDefinedFunctionRequest")
    /\ "input_records" \in DOMAIN r_request

InputStream == r_request.input_records.schema \o r_request.input_records.records

\* The invocation failed with the error of read_input_batches, before any
\* batch reached the handler.
FailedReading ==
    /\ ~ReadInputBatches(r_request).ok
    /\ r_result = ReadInputBatches(r_request)
    /\ r_work = NoWork
    /\ NothingRan

(* C19 as claimed: every input stream that is not validly framed fails. *)
C19_AsClaimed == (DecodedReturned /\ ~WellFramed(InputStream, 1)) => FailedReading

\* The bytes left where the reader meets the end of the buffer inside the
\* four bytes that open a message.
RECURSIVE Leftover(_, _)
Leftover(buf, pos) ==
    LET m == ReadMessage(buf, pos)
    IN  CASE m.kind = "eof" -> Len(buf) + 1 - pos
          [] m.kind = "msg" -> Leftover(buf, m.next)
          [] OTHER -> 0

\* What does hold: a stream that read_input_batches refuses yields no batch
\* at all, and a stream that is not validly framed is refused unless it is
\* whole messages followed by fewer than four bytes.
C19_ErrorNotPartial ==
    DecodedReturned =>
        /\ ~ReadInputBatches(r_request).ok => FailedReading
        /\ (~WellFramed(InputStream, 1) /\ Leftover(InputStream, 1) = 0)
              => ~ReadInputBatches(r_request).ok

\* A records buffer of two messages cut two bytes into the second: the first
\* batch alone was read, without an error, and handed to the handler.
C19_Witness ==
    /\ DecodedReturned
    /\ ~WellFramed(InputStream, 1)
    /\ Leftover(InputStream, 1) = 2
    /\ ReadInputBatches(r_request).ok
    /\ Len(ReadInputBatches(r_request).v) = 1
    /\ Len(r_log.handler_calls) = 1
    /\ Succeeded

\* A records buffer of two messages cut inside the body of the second: an
\* error, though the first message is whole.
C19_WitnessRefused ==
    /\ DecodedReturned
    /\ FailedReading
    /\ IsErr(r_result, "ReadBatch")
    /\ LET schema_end == ReadMessage(InputStream, 1).next
           first == ReadMessage(InputStream, schema_end)
       IN  /\ first.kind = "msg"
           /\ ReadMessage(InputStream, first.next).kind = "err"
           /\ first.next + 8 <= Len(InputStream)

(* --------------------------------------------------------------------- *)
(* C20: every schema and records buffer is written to the JSON envelope as  *)
(* its standard base64 encoding and read back by base64 decoding, so that   *)
(* deserialize(serialize(bytes)) = bytes for every byte sequence, the empty *)
(* one included; a request whose inputRecords.schema, inputRecords.records  *)
(* or outputSchema.schema is not valid base64 fails with an error before    *)
(* any batch is decoded or any function is invoked.                         *)
(* --------------------------------------------------------------------- *)
\* Standard base64 (RFC 4648) with padding: whole groups of four characters,
\* '=' (64) only as the last one or two characters of the text, and no bit
\* set under the padding.
ValidBase64(str) ==
    \/ str = Text("")
    \/ /\ str.kind = "b64"
       /\ Len(str.sextets) % 4 = 0
       /\ LET c == str.sextets
              n == Len(c)
          IN  /\ \A i \in 1..n : c[i] = 64 => i \in {n - 1, n}
              /\ c[n - 1] = 64 => (c[n] = 64 /\ c[n - 2] % 16 = 0)
              /\ (c[n] = 64 /\ c[n - 1] # 64) => c[n - 1] % 4 = 0

\* The three buffers of the Invoke payload, as the strings the payload holds.
PayloadBuffers ==
    <<r_payload.o["inputRecords"].o["schema"],
      r_payload.o["inputRecords"].o["records"],
      r_payload.o["outputSchema"].o["schema"]>>

\* The payload is an Invoke whose three buffers are strings.
BuffersAreStrings ==
    /\ Classified
    /\ TypeIs("UserDefinedFunctionRequest")
    /\ \A key \in {"inputRecords", "outputSchema"} :
          key \in DOMAIN r_payload.o /\ r_payload.o[key].j = "obj"
    /\ {"aId", "schema", "records"} \subseteq DOMAIN r_payload.o["inputRecords"].o
    /\ r_payload.o["inputRecords"].o["aId"].j = "str"
    /\ "schema" \in DOMAIN r_payload.o["outputSchema"].o
    /\ \A i \in 1..3 : PayloadBuffers[i].j = "str"

\* Byte buffers of every length up to the bound survive the writing and the
\* reading.
RoundTripOfEvery ==
    \A bytes \in SeqsUpTo({0, 1, 77, 255}, MaxBytes) :
        /\ Base64Serialize(bytes) = DString(Base64Encode(bytes))
        /\ ValidBase64(Base64Encode(bytes))
        /\ Base64Deserialize(SerializedValue(Base64Serialize(bytes))) = Ok(bytes)

C20_Base64Embedding ==
    /\ RoundTripOfEvery
    /\ (r_pc = "returned" /\ BuffersAreStrings) =>
          IF \A i \in 1..3 : ValidBase64(PayloadBuffers[i].s)
          THEN /\ ~IsErr(r_result, "Base64")
               /\ "input_records" \in DOMAIN r_request =>
                     /\ JString(Base64Encode(r_request.input_records.schema)) = PayloadBuffers[1]
                     /\ JString(Base64Encode(r_request.input_records.records)) = PayloadBuffers[2]
                     /\ JString(Base64Encode(r_request.output_schema.schema)) = PayloadBuffers[3]
          ELSE /\ IsErr(r_result, "Base64")
               /\ r_request = NoRequest
               /\ r_work = NoWork
               /\ NothingRan
    /\ (Succeeded /\ TypeIs("UserDefinedFunctionRequest")) =>
          LET records == ResponseObject.o["records"].o
          IN  /\ records["schema"] = JString(Base64Encode(r_response.records.schema))
              /\ records["records"] = JString(Base64Encode(r_response.records.records))
              /\ Base64Deserialize(records["schema"]) = Ok(r_response.records.schema)
              /\ Base64Deserialize(records["records"]) = Ok(r_response.records.records)

\* An Invoke whose records buffer is three base64 characters, its two other
\* buffers valid, failed before anything was read.
C20_Witness ==
    /\ r_pc = "returned"
    /\ BuffersAreStrings
    /\ ValidBase64(PayloadBuffers[1].s) /\ ValidBase64(PayloadBuffers[3].s)
    /\ ~ValidBase64(PayloadBuffers[2].s)
    /\ IsErr(r_result, "Base64")
    /\ NothingRan

(* --------------------------------------------------------------------- *)
(* C21: after classification a Ping payload without the required identity, *)
(* or an Invoke payload without identity, inputRecords (aId, schema,        *)
(* records), outputSchema, methodName or functionType, or with one of them  *)
(* wrongly typed, fails with a malformed-request error and no response;     *)
(* catalogName and queryId of a Ping and the fields inside identity are     *)
(* optional.  A field that is a structure is read from an object and also   *)
(* from an array of its fields in declaration order.                        *)
(* --------------------------------------------------------------------- *)
\* An optional string: absent, null or a string.
OptionalString(field) == IsNone(field) \/ Unwrap(field).j \in {"null", "str"}

\* A structure of n fields as the request may write it.  Strictly it is an
\* object; the decoder also takes an array of at most n elements.
IsStructure(v, n, strict) == v.j = "obj" \/ (~strict /\ v.j = "arr" /\ Len(v.a) <= n)

IdentityTyped(v, strict) ==
    /\ IsStructure(v, 4, strict)
    /\ \A i \in 1..4 : OptionalString(FieldOf(v, IdentityKeys[i], i))

StringField(v, key, pos) ==
    IsSome(FieldOf(v, key, pos)) /\ Unwrap(FieldOf(v, key, pos)).j = "str"

PingTyped(strict) ==
    /\ "identity" \in DOMAIN r_payload.o
    /\ IdentityTyped(r_payload.o["identity"], strict)
    /\ OptionalString(Get(r_payload, "catalogName"))
    /\ OptionalString(Get(r_payload, "queryId"))

InvokeTyped(strict) ==
    /\ {"identity", "inputRecords", "outputSchema", "methodName", "functionType"}
          \subseteq DOMAIN r_payload.o
    /\ IdentityTyped(r_payload.o["identity"], strict)
    /\ IsStructure(r_payload.o["inputRecords"], 3, strict)
    /\ StringField(r_payload.o["inputRecords"], "aId", 1)
    /\ StringField(r_payload.o["inputRecords"], "schema", 2)
    /\ StringField(r_payload.o["inputRecords"], "records", 3)
    /\ IsStructure(r_payload.o["outputSchema"], 1, strict)
    /\ StringField(r_payload.o["outputSchema"], "schema", 1)
    /\ r_payload.o["methodName"].j = "str"
    /\ r_payload.o["functionType"].j = "str"

\* The typed decode failed the invocation: an error, no request, no response,
\* nothing run.
Malformed ==
    /\ IsErr(r_result, "Deserialize")
    /\ r_request = NoRequest
    /\ r_work = NoWork
    /\ r_response = NoResponse
    /\ NothingRan

TypedDecode(strict) ==
    /\ (r_pc = "returned" /\ Classified /\ TypeIs("PingRequest")) =>
          IF PingTyped(strict)
          THEN Succeeded /\ r_response.variant = "PingResponse" /\ r_log.ping_handled = 1
          ELSE Malformed
    /\ (r_pc = "returned" /\ Classified /\ TypeIs("UserDefinedFunctionRequest")) =>
          IF InvokeTyped(strict)
          THEN ~IsErr(r_result, "Deserialize")
          ELSE Malformed

(* C21 as claimed: a structure written as an array is wrongly typed. *)
C21_AsClaimed == TypedDecode(TRUE)

(* C21, a structure being an object or an array of its fields: a payload with
   a required field missing or wrongly typed fails in the typed decode with
   no response; a payload without the optional fields does not. *)
C21_TypedDecode == TypedDecode(FALSE)

\* An Invoke without functionType failed in the typed decode.
C21_Witness ==
    /\ r_pc = "returned"
    /\ Classified
    /\ TypeIs("UserDefinedFunctionRequest")
    /\ DOMAIN r_payload.o = {"@type", "identity", "inputRecords", "outputSchema", "methodName"}
    /\ Malformed

(* --------------------------------------------------------------------- *)
(* C22: for every Invoke, the output field name handed to the handler with  *)
(* each input batch is the name of field 0 of the output schema decoded     *)
(* from the request, and every output batch has one column, of that name.   *)
(* --------------------------------------------------------------------- *)
\* The Invoke was decoded and its handler has been called.
HandlerCalled ==
    /\ Classified
    /\ TypeIs("UserDefinedFunctionRequest")
    /\ r_log.handler_calls # <<>>

DeclaredOutputSchema == ReadOutputSchema(r_request).v

C22_OutputColumnNaming ==
    HandlerCalled =>
        /\ ReadOutputSchema(r_request).ok
        /\ Len(DeclaredOutputSchema) > 0
        /\ \A c \in 1..Len(r_log.handler_calls) :
              r_log.handler_calls[c].output_col_name = DeclaredOutputSchema[1].name
        /\ \A k \in 1..Len(r_work.output_batches) :
              /\ Len(r_work.output_batches[k].schema) = 1
              /\ Len(r_work.output_batches[k].columns) = 1
              /\ r_work.output_batches[k].schema[1].name = DeclaredOutputSchema[1].name

\* Every batch of an Invoke whose output schema has the fields sum, b and c
\* was processed into a column named sum.
C22_Witness ==
    /\ HandlerCalled
    /\ Succeeded
    /\ Len(DeclaredOutputSchema) = 3
    /\ Len(r_log.handler_calls) = MaxBatches
    /\ Len(r_work.output_batches) = MaxBatches
    /\ r_work.output_batches[MaxBatches].schema[1].name = "sum"

(* --------------------------------------------------------------------- *)
(* C23: an Invoke of k input batches that all process successfully applies  *)
(* the handler exactly once to each input batch, in input order, and its    *)
(* response encodes exactly k output batches in that order; output batch j  *)
(* has the row count of input batch j and depends on input batch j alone.   *)
(* --------------------------------------------------------------------- *)
\* The batch messages of the response's records buffer, read in order with
\* the schema of the handler's batches.
EncodedOutputs ==
    CollectBatches([schema |-> r_work.output_batches[1].schema,
                    buf |-> r_response.records.records], 1, <<>>)

C23_MultiBatch ==
    (Succeeded /\ TypeIs("UserDefinedFunctionRequest")) =>
        LET k == Len(r_work.input_batches)
        IN  /\ [c \in 1..Len(r_log.handler_calls) |-> r_log.handler_calls[c].batch]
                 = [j \in 1..k |-> j]
            /\ Len(r_work.output_batches) = k
            /\ \A j \in 1..k :
                  /\ r_work.output_batches[j].num_rows = r_work.input_batches[j].num_rows
                  /\ Ok(r_work.output_batches[j])
                       = Processor(r_handler, r_work.input_batches[j], r_request.method_name,
                                   r_work.output_col_name)
            /\ k > 0 => EncodedOutputs = Ok(r_work.output_batches)
            /\ k = 0 => r_response.records.records = <<>>

\* An Invoke of MaxBatches batches of different row counts returned.
C23_Witness ==
    /\ Succeeded
    /\ TypeIs("UserDefinedFunctionRequest")
    /\ Len(r_work.input_batches) = MaxBatches
    /\ r_work.input_batches[1].num_rows # r_work.input_batches[MaxBatches].num_rows
    /\ Len(r_log.handler_calls) = MaxBatches
    /\ EncodedOutputs = Ok(r_work.output_batches)

(* --------------------------------------------------------------------- *)
(* C24: the function table is consulted by methodName exactly once per      *)
(* Invoke request, whatever the number of input batches of the request.     *)
(* --------------------------------------------------------------------- *)
\* The handler calls that reached the match on method_name: every call of the
\* closure of athena_udf_handler!, and the calls of the hand-written closure
\* that passed its own check.
Lookups ==
    Cardinality({c \in 1..Len(r_log.handler_calls) :
                    Processor(r_handler, r_work.input_batches[r_log.handler_calls[c].batch],
                              Text("no_such_function"), r_work.output_col_name)
                      = Err("UnknownFunction")})

(* C24 as claimed: one lookup for every Invoke whose streams were read. *)
C24_AsClaimed == InvokeReturned => Lookups = 1

\* What does hold: one lookup for each batch handed to the match, each with
\* the request's methodName, none when the request has no batch.
C24_LookupPerBatch ==
    InvokeReturned =>
        /\ Lookups <= Len(r_work.input_batches)
        /\ Succeeded => Lookups = Len(r_work.input_batches)
        /\ \A c \in 1..Len(r_log.handler_calls) :
              r_log.handler_calls[c].method_name = r_request.method_name

\* A successful Invoke of MaxBatches batches consulted the table as often.
C24_Witness ==
    /\ InvokeReturned
    /\ Succeeded
    /\ Len(r_work.input_batches) = MaxBatches
    /\ Lookups = MaxBatches

\* An Invoke of no batch returned without consulting the table.
C24_WitnessNoBatch ==
    /\ InvokeReturned
    /\ Succeeded
    /\ r_work.input_batches = <<>>
    /\ Lookups = 0

(* --------------------------------------------------------------------- *)
(* C25: every failure of handle_athena_request, in Direct and in HTTP mode  *)
(* alike, is the invocation's own error result; no error is returned as a   *)
(* response value, so every returned value is a well-formed Ping or Invoke  *)
(* response, or an HTTP envelope with statusCode 200 around one.            *)
(* --------------------------------------------------------------------- *)
\* The JSON object of a PingResponse or of a UserDefinedFunctionResponse.
WellFormedResponse(value) ==
    /\ value.j = "obj"
    /\ "@type" \in DOMAIN value.o
    /\ \/ /\ value.o["@type"] = JString(Text("PingResponse"))
          /\ DOMAIN value.o = {"@type", "catalogName", "queryId", "sourceType",
                                "capabilities", "serdeVersion"}
          /\ value.o["sourceType"].j = "str"
          /\ value.o["capabilities"] = JNumber(Capabilities)
          /\ value.o["serdeVersion"] = JNumber(SerdeVersion)
          /\ \A key \in {"catalogName", "queryId"} : value.o[key].j \in {"null", "str"}
       \/ /\ value.o["@type"] = JString(Text("UserDefinedFunctionResponse"))
          /\ DOMAIN value.o = {"@type", "methodName", "records"}
          /\ value.o["methodName"].j = "str"
          /\ value.o["records"].j = "obj"
          /\ DOMAIN value.o["records"].o = {"aId", "schema", "records"}
          /\ \A key \in {"aId", "schema", "records"} : value.o["records"].o[key].j = "str"
          /\ ValidBase64(value.o["records"].o["schema"].s)
          /\ ValidBase64(value.o["records"].o["records"].s)

\* Every stage of the invocation succeeded.
NoStageFailed ==
    /\ ParseRequest(r_event).ok
    /\ IsSome(RequestType(r_payload))
    /\ Route(Unwrap(RequestType(r_payload))) # "unknown"
    /\ Route(Unwrap(RequestType(r_payload))) = "ping" => DePingRequest(r_payload).ok
    /\ Route(Unwrap(RequestType(r_payload))) = "udf" =>
          /\ DeUdfRequest(r_payload).ok
          /\ ReadInputBatches(r_request).ok
          /\ ReadOutputSchema(r_request).ok
          /\ OutputColName(ReadOutputSchema(r_request).v).ok
          /\ \A k \in 1..Len(r_work.input_batches) :
                Processor(r_handler, r_work.input_batches[k], r_request.method_name,
                          r_work.output_col_name).ok

C25_FailureSignalling ==
    r_pc = "returned" =>
        /\ r_result.ok <=> NoStageFailed
        /\ r_result.ok <=> r_response # NoResponse
        /\ ~r_result.ok => "v" \notin DOMAIN r_result
        /\ r_result.ok =>
              /\ IF r_is_http THEN IsEnvelope(r_result.v) ELSE IsUnwrapped(r_result.v)
              /\ WellFormedResponse(ResponseObject)
              /\ ResponseObject = SerializedValue(SerializeResponse(r_response))

\* An Invoke sent through a Function URL failed at its second batch: an
\* error, and no envelope.
C25_Witness ==
    /\ r_pc = "returned"
    /\ r_is_http
    /\ TypeIs("UserDefinedFunctionRequest")
    /\ Len(r_log.handler_calls) = 2
    /\ IsErr(r_result, "Rejected")
    /\ r_response = NoResponse

(* --------------------------------------------------------------------- *)
(* C26: no invocation leaves state visible to another: for a fixed function *)
(* table two invocations with equal inbound values return equal results,    *)
(* whatever invocations, successful or failed, were processed before or     *)
(* between them, and processing a request never modifies the table.         *)
(* --------------------------------------------------------------------- *)
\* The invocations completed so far, the one that has just returned included.
Completed ==
    IF r_pc = "returned"
    THEN Append(h_done, [event |-> r_event, handler |-> r_handler, result |-> r_result])
    ELSE h_done

C26_InvocationIsolation ==
    /\ \A i, j \in 1..Len(Completed) :
          Completed[i].event = Completed[j].event => Completed[i].result = Completed[j].result
    /\ \A i \in 1..Len(Completed) :
          /\ Completed[i].handler = r_handler
          /\ Completed[i].result = HandleAthenaRequest(Completed[i].event, r_handler)

\* The first and the last invocation of a process had the same Invoke and
\* returned the same response, with an invocation of another request that
\* failed at its second batch between them.
C26_Witness ==
    /\ Len(Completed) = MaxInvocations
    /\ Completed[1].event = Completed[MaxInvocations].event
    /\ Completed[1].result.ok
    /\ Completed[1].result = Completed[MaxInvocations].result
    /\ Len(r_work.output_batches) = 2
    /\ \E i \in 2..(MaxInvocations - 1) :
          /\ Completed[i].event # Completed[1].event
          /\ IsErr(Completed[i].result, "Rejected")

(* --------------------------------------------------------------------- *)
(* C27: within one process_N call user_fn is invoked exactly once for each  *)
(* row in which every input read yields a value, for no other row, and in   *)
(* strictly ascending order of the row index; the number of invocations is  *)
(* the number of rows in which no read is absent.                           *)
(* --------------------------------------------------------------------- *)
\* The rows of the call's batch in which no read is absent: a null under a
\* plain type is the only read that is.
RowsRead == {i \in InRows : ~PlainNullAt(i)}

C27_InvocationOrder ==
    /\ p_res.kind \in {"err", "panic"} => p_res.calls = <<>>
    /\ p_res.kind = "ok" =>
          /\ \A c, d \in 1..Len(p_res.calls) :
                c < d => p_res.calls[c].row_idx < p_res.calls[d].row_idx
          /\ {p_res.calls[c].row_idx : c \in 1..Len(p_res.calls)} = RowsRead
          /\ Len(p_res.calls) = Cardinality(RowsRead)
          /\ \A i \in RowsRead :
                Cardinality({c \in 1..Len(p_res.calls) : p_res.calls[c].row_idx = i}) = 1

\* A call of two inputs on MaxRows rows, the first input an Option that is
\* null in row 1: user_fn ran for every row, row 1 first.
C27_Witness ==
    /\ p_res.kind = "ok"
    /\ Arity = 2
    /\ p_in.batch.num_rows = MaxRows
    /\ p_in.sig[1].opt /\ ~InColumn(1).validity[1]
    /\ Len(p_res.calls) = MaxRows
    /\ p_res.calls[1].row_idx = 1
    /\ p_res.calls[1].args[1] = None
    /\ p_res.calls[MaxRows].row_idx = MaxRows

(* --------------------------------------------------------------------- *)
(* C28: in process_N all N input columns are type-checked before the row    *)
(* loop starts: if any of columns 0..N-1 has a mismatching array type,      *)
(* user_fn is invoked zero times for the batch, even when the mismatching   *)
(* column is the last one and the earlier ones bind, and the column index   *)
(* reported is that of the first mismatching position.                      *)
(* --------------------------------------------------------------------- *)
\* Position k of the call has a column, of another array type than declared.
MismatchAt(k) == k <= NumColumns(p_in.batch) /\ InColumn(k).data_type # p_in.sig[k].ty

FirstMismatch == CHOOSE k \in 1..Arity : MismatchAt(k) /\ \A j \in 1..(k - 1) : ~MismatchAt(j)

C28_BindingBeforeLoop ==
    (\E k \in 1..Arity : MismatchAt(k)) =>
        /\ p_res.kind = "err"
        /\ p_res.error = "ColumnTypeMismatch"
        /\ p_res.col_idx = FirstMismatch - 1
        /\ p_res.calls = <<>>
        /\ "batch" \notin DOMAIN p_res

\* A call of MaxArity inputs on rows without a null: only the last column
\* is of another type, and user_fn never ran.
C28_Witness ==
    /\ p_res.kind = "err"
    /\ Arity = MaxArity
    /\ NumColumns(p_in.batch) = MaxArity
    /\ \A k \in 1..(MaxArity - 1) : ~MismatchAt(k)
    /\ MismatchAt(MaxArity)
    /\ p_in.batch.num_rows = MaxRows
    /\ RowsRead = InRows
    /\ p_res.col_idx = MaxArity - 1
    /\ p_res.calls = <<>>

(* --------------------------------------------------------------------- *)
(* C29: the schema bytes of every successful Invoke response encode the     *)
(* output schema decoded from the request's outputSchema, not the schema    *)
(* of the batches the handler produced; each output batch declares its      *)
(* single field nullable with the output adapter's data type, and an        *)
(* Invoke succeeds whether or not that agrees with the declared schema.     *)
(* --------------------------------------------------------------------- *)
\* The schema message of the response's schema buffer, read back.
ResponseSchema == StreamReaderTryNew(r_response.records.schema)

\* The schema process_N gives the batch of the function called.
HandlerSchema ==
    <<Field(DeclaredOutputSchema[1].name,
            DataTypeOf(FunctionTable[r_request.method_name.chars].out), TRUE)>>

C29_DeclaredSchema ==
    (Succeeded /\ TypeIs("UserDefinedFunctionRequest")) =>
        /\ ReadOutputSchema(r_request).ok
        /\ ResponseSchema.ok
        /\ ResponseSchema.v.schema = DeclaredOutputSchema
        /\ \A j \in 1..Len(r_work.output_batches) :
              r_work.output_batches[j].schema = HandlerSchema

\* An Invoke returned a response whose schema buffer declares three fields,
\* the first an Int64, around batches of one Utf8 column.
C29_Witness ==
    /\ Succeeded
    /\ TypeIs("UserDefinedFunctionRequest")
    /\ Len(r_work.output_batches) = MaxBatches
    /\ ResponseSchema.ok
    /\ Len(ResponseSchema.v.schema) = 3
    /\ ResponseSchema.v.schema[1].data_type = "Int64"
    /\ ~ResponseSchema.v.schema[2].nullable
    /\ \A j \in 1..MaxBatches :
          /\ Len(r_work.output_batches[j].schema) = 1
          /\ r_work.output_batches[j].schema[1].data_type = "Utf8"
          /\ r_work.output_batches[j].schema[1].nullable
    /\ EncodedOutputs = Ok(r_work.output_batches)

(* --------------------------------------------------------------------- *)
(* C30: process_N reads only columns 0..N-1 of the batch. The columns at    *)
(* positions >= N are never type-checked or read: with another type, other  *)
(* values or other null positions there, or with no such column, the call   *)
(* has the same outcome, the same user_fn calls and the same output batch.  *)
(* --------------------------------------------------------------------- *)
\* The columns a batch of n rows may hold past the declared positions: none,
\* or one of any type, values and null positions.
TailColumns(n) ==
    {<<>>} \cup { <<InputColumn(k, dt, bm)>>
                   : k \in {Arity + 1, Arity + 2},
                     dt \in ProcTypes \cup {"Boolean"},
                     bm \in Bitmaps(n) }

\* The batch with its columns past position N replaced by tail.
WithTail(batch, N, tail) ==
    [schema   |-> SubSeq(batch.schema, 1, N)
                    \o [t \in 1..Len(tail) |->
                          Field(ColumnNames[N + t], tail[t].data_type, TRUE)],
     columns  |-> SubSeq(batch.columns, 1, N) \o tail,
     num_rows |-> batch.num_rows]

====
